---- MODULE Spec2Model ----
(***************************************************************************)
(* A model of the Employer server: the in-memory entity store              *)
(* (server/storage.ts, MemStorage) and the request handlers registered by  *)
(* registerRoutes (server/routes.ts).                                      *)
(*                                                                         *)
(* Every handler is an async function.  It runs without interruption from  *)
(* one `await` to the next, so each action below is one such block of a    *)
(* handler: the code from the point where an awaited call returns up to    *)
(* and including the synchronous part of the next awaited call (a          *)
(* MemStorage method has no await inside, so its reads and writes happen   *)
(* at the moment it is called).  Other requests may run between two        *)
(* blocks of the same request.                                             *)
(*                                                                         *)
(* Records handed out by MemStorage are the objects held in its maps, so   *)
(* a handler that reads `task.status` after an await reads the current     *)
(* value.  A handler therefore keeps only identifiers in its locals.       *)
(*                                                                         *)
(* Amounts (rewardSol, amountSol, totalEarnings, totalPaidOut, balanceSol) *)
(* are whole numbers of one unit, for which parseFloat and toString are    *)
(* exact.  Identifiers (randomUUID) are the position of the record in its  *)
(* map, which also is the iteration order of Map.values().  A timestamp    *)
(* field holds the number of times it has been stamped (0 is null): two    *)
(* different values are two different instants.                            *)
(***************************************************************************)
EXTENDS Integers, Sequences, FiniteSets, Bags, TLC

\* ------------------------------------------------------------ constants

MAX_PAYMENT_AMOUNT_SOL == 10

\* --------------------------------------------------------------- bounds

\* Handlers that may be between two of their awaits at the same time.
MaxInFlight == 2
\* Submission records the store may hold.
MaxSubs == 2
\* Payment records pending when settlement starts.
MaxPays == 2

\* Inputs of the requests.
Usernames == {"alice", "bob"}
WalletInputs == {"", "addrA", "bad"}
ValidAddresses == {"addrA", "employer"}
PasswordLengths == {3, 8}
\* What parseFloat gives for a text that is no number.
NaN == -1000
RewardInputs == {NaN, 0, 3, 10, 11}
\* An item of the generated list that is null: reading its rewardSol throws.
NullItem == -2000
\* What generateTasks may return (JSON.parse of the reply, unchecked): the
\* parsed rewardSol of each item, or NullItem.  A reply that is null or no
\* array throws before the first item as <<NullItem, 7>> does at it.
GeneratedLists ==
    { <<>>, <<NaN, 11>>, <<0, 7>>, <<7, NaN>>, <<NullItem, 7>>, <<7, NullItem>> }
BudgetInputs == {NaN, 0, 5}
CapInputs == {0, 1, 2}
MaxUsers == 2
MaxTasks == 1
ClaimedAmounts == {0, 1}
MaxBalance == 2

\* null in a field that otherwise holds an identifier, a count or a timestamp,
\* in a string field, and in aiVerificationScore
Null == 0
NullStr == "null"
NoScore == -1

\* ------------------------------------------------------- shared/schema.ts

OPEN == "open"
IN_PROGRESS == "in_progress"
PENDING_VERIFICATION == "pending_verification"
TASK_COMPLETED == "completed"
CANCELLED == "cancelled"

SUB_PENDING == "pending"
APPROVED == "approved"
REJECTED == "rejected"

PAY_PENDING == "pending"
PROCESSING == "processing"
PAY_COMPLETED == "completed"
FAILED == "failed"

VARIABLES
    users,        \* MemStorage.users
    tasks,        \* MemStorage.tasks
    submissions,  \* MemStorage.submissions
    payments,     \* MemStorage.payments
    budgetData,   \* MemStorage.budgetData
    req,          \* the handlers in progress, a bag: position and locals of each
    reply,        \* the response sent last: its operation, status code and, of a batch, result list
    calls,        \* per Payment: the collaborator calls and accruals made for it
    employerKey,  \* process.env.EMPLOYER_WALLET_PRIVATE_KEY decodes to a Keypair
    twin          \* a second server given the same requests and responses

vars == <<users, tasks, submissions, payments, budgetData, req, reply, calls,
          employerKey, twin>>
store == <<users, tasks, submissions, payments, budgetData>>

\* ------------------------------------------------------ services/solana.ts

\* Comparisons of JavaScript numbers: any comparison with NaN is false.
isNaN(x) == x = NaN
Gt(a, b) == ~isNaN(a) /\ ~isNaN(b) /\ a > b
Leq(a, b) == ~isNaN(a) /\ ~isNaN(b) /\ a <= b

isValidWalletAddress(address) == address \in ValidAddresses

\* ------------------------------------------------------ server/storage.ts

getUserByUsername(us, username) ==
    IF \E i \in DOMAIN us : us[i].username = username
    THEN CHOOSE i \in DOMAIN us :
            /\ us[i].username = username
            /\ \A j \in DOMAIN us : us[j].username = username => i <= j
    ELSE Null

createUser(us, username, walletAddress) ==
    Append(us, [username |-> username, walletAddress |-> walletAddress,
                totalEarnings |-> 0, tasksCompleted |-> 0])

updateUserEarnings(us, id, amount) ==
    IF id \in DOMAIN us
    THEN [us EXCEPT ![id].totalEarnings = @ + amount,
                    ![id].tasksCompleted = @ + 1]
    ELSE us

createTask(ts, rewardSol, maxSubmissions) ==
    Append(ts, [rewardSol |-> rewardSol, status |-> OPEN,
                maxSubmissions |-> maxSubmissions, currentSubmissions |-> 0,
                assignedTo |-> Null])

updateTaskStatus(ts, id, status) ==
    IF id \in DOMAIN ts THEN [ts EXCEPT ![id].status = status] ELSE ts

\* An assignTask that binds the worker and leaves the status as it was.
assignOnly(ts, taskId, workerId) ==
    IF taskId \in DOMAIN ts
    THEN [ts EXCEPT ![taskId].assignedTo = workerId]
    ELSE ts

assignTask(ts, taskId, workerId) ==
    IF taskId \in DOMAIN ts
    THEN [ts EXCEPT ![taskId].assignedTo = workerId,
                    ![taskId].status = IN_PROGRESS]
    ELSE ts

\* An increment that leaves the status alone when the cap is reached.
incrementOnly(ts, id) ==
    IF id \in DOMAIN ts
    THEN [ts EXCEPT ![id].currentSubmissions = @ + 1]
    ELSE ts

incrementTaskSubmissions(ts, id) ==
    IF id \in DOMAIN ts
    THEN LET n == ts[id].currentSubmissions + 1
         IN  [ts EXCEPT ![id].currentSubmissions = n,
                        ![id].status =
                            IF ts[id].maxSubmissions # 0 /\ n >= ts[id].maxSubmissions
                            THEN PENDING_VERIFICATION ELSE @]
    ELSE ts

RECURSIVE SelectIds(_, _, _)
\* The identifiers, in map order, of the records of `s` from position i on
\* whose status is `status` (Array.from(map.values()).filter(...)).
SelectIds(s, status, i) ==
    IF i > Len(s) THEN <<>>
    ELSE IF s[i].status = status
         THEN <<i>> \o SelectIds(s, status, i + 1)
         ELSE SelectIds(s, status, i + 1)

getPendingSubmissions(ss) == SelectIds(ss, SUB_PENDING, 1)

createSubmission(ss, taskId, workerId) ==
    Append(ss, [taskId |-> taskId, workerId |-> workerId, status |-> SUB_PENDING,
                aiVerificationResult |-> NullStr, aiVerificationScore |-> NoScore,
                verifiedAt |-> Null])

\* verificationResult is a string, and an empty one is falsy and leaves the
\* field as it was; verificationScore is score.toString(), never empty.
updateSubmissionStatus(ss, id, status, verificationResult, verificationScore) ==
    IF id \in DOMAIN ss
    THEN [ss EXCEPT ![id].status = status,
                    ![id].aiVerificationResult =
                        IF verificationResult # "" THEN verificationResult ELSE @,
                    ![id].aiVerificationScore = verificationScore,
                    ![id].verifiedAt = @ + 1]
    ELSE ss

\* A getPendingPayments that returns the first pending Payment only.
getFirstPendingPayment(ps) ==
    IF SelectIds(ps, PAY_PENDING, 1) = <<>> THEN <<>>
    ELSE <<Head(SelectIds(ps, PAY_PENDING, 1))>>

getPendingPayments(ps) == SelectIds(ps, PAY_PENDING, 1)

createPayment(ps, submissionId, taskId, workerId, walletAddress, amountSol) ==
    Append(ps, [submissionId |-> submissionId, taskId |-> taskId,
                workerId |-> workerId, walletAddress |-> walletAddress,
                amountSol |-> amountSol, status |-> PAY_PENDING,
                transactionSignature |-> Null, errorMessage |-> NullStr,
                completedAt |-> Null])

\* signature and error are optional: Null and "" stand for undefined.  A
\* signature is the number of the sendPayment call that produced it.
updatePaymentStatus(ps, id, status, signature, error) ==
    IF id \in DOMAIN ps
    THEN [ps EXCEPT ![id].status = status,
                    ![id].transactionSignature = IF signature # Null THEN signature ELSE @,
                    ![id].errorMessage = IF error # "" THEN error ELSE @,
                    ![id].completedAt = IF status = PAY_COMPLETED THEN @ + 1 ELSE @]
    ELSE ps

NoBudget == [present |-> FALSE, walletAddress |-> "", balanceSol |-> 0, totalPaidOut |-> 0]

\* An updateBudget that writes a fresh record at every observation.
updateBudgetFresh(b, balanceSol, walletAddress) ==
    [present |-> TRUE, walletAddress |-> walletAddress,
     balanceSol |-> balanceSol, totalPaidOut |-> 0]

updateBudget(b, balanceSol, walletAddress) ==
    IF ~b.present
    THEN [present |-> TRUE, walletAddress |-> walletAddress,
          balanceSol |-> balanceSol, totalPaidOut |-> 0]
    ELSE [b EXCEPT !.balanceSol = balanceSol,
                   !.walletAddress = IF walletAddress # "" THEN walletAddress ELSE @]

addToPaidOut(b, amount) ==
    IF b.present THEN [b EXCEPT !.totalPaidOut = @ + amount] ELSE b

\* ------------------------------------------------------ services/claude.ts

\* Values of a parsed reply's reasoning field that are not strings: "#42"
\* stands for the number 42.  The parse takes any JSON value for the field.
NonStrings == {"#42"}

\* What the judge's call can come to: the call or the parse throws, or the
\* reply parses to an object with these fields.
JudgeReplies ==
    { [threw |-> TRUE,  approved |-> FALSE, score |-> 0,   reasoning |-> ""],
      [threw |-> FALSE, approved |-> TRUE,  score |-> 92,  reasoning |-> "meets the criteria"],
      [threw |-> FALSE, approved |-> TRUE,  score |-> 250, reasoning |-> ""],
      [threw |-> FALSE, approved |-> FALSE, score |-> -7,  reasoning |-> "proof does not match"],
      [threw |-> FALSE, approved |-> TRUE,  score |-> 80,  reasoning |-> "Verification failed: none"],
      [threw |-> FALSE, approved |-> TRUE,  score |-> 90,  reasoning |-> "#42"] }

Max(a, b) == IF a >= b THEN a ELSE b
Min(a, b) == IF a <= b THEN a ELSE b

VerificationFailed == "Verification failed: error"

\* A verifySubmission that passes the judge's score on as it is.
verifySubmissionUnclamped(judged) ==
    IF judged.threw
    THEN [approved |-> FALSE, score |-> 0, reasoning |-> VerificationFailed]
    ELSE [approved |-> judged.approved,
          score |-> judged.score,
          reasoning |-> IF judged.reasoning # "" THEN judged.reasoning
                        ELSE "No reasoning provided"]

verifySubmission(judged) ==
    IF judged.threw
    THEN [approved |-> FALSE, score |-> 0, reasoning |-> VerificationFailed]
    ELSE [approved |-> judged.approved,
          score |-> Max(0, Min(100, judged.score)),
          reasoning |-> IF judged.reasoning # "" THEN judged.reasoning
                        ELSE "No reasoning provided"]

\* The texts that start with "Verification failed:".
FailurePrefixed == {VerificationFailed, "Verification failed: none"}

\* A handler that takes no result of the judge for a service error.
NeverServiceError(result) == FALSE

\* result.reasoning.startsWith("Verification failed:")
IsServiceError(result) == result.reasoning \in FailurePrefixed

\* result.reasoning.startsWith is not a function: the call throws a TypeError
\* and the handler's catch answers 500.
StartsWithThrows(result) == result.reasoning \in NonStrings

\* ------------------------------------------------------- request handlers

Blank == [op |-> "none", pc |-> "start", id |-> 0, worker |-> 0,
          name |-> "", wallet |-> "", found |-> FALSE, ok |-> FALSE,
          score |-> 0, amount |-> 0, sig |-> 0, err |-> "",
          queue |-> <<>>, results |-> <<>>]

NoReply == [op |-> "none", code |-> 0, results |-> <<>>]

At(h, op, pc) == BagIn(h, req) /\ h.op = op /\ h.pc = pc

InFlight(op) == BagCardinality([g \in {f \in BagToSet(req) : f.op = op} |-> req[g]])

\* The store and the requests in progress of one server.
Server == [users |-> users, tasks |-> tasks, submissions |-> submissions,
           payments |-> payments, budgetData |-> budgetData,
           req |-> req, reply |-> reply, calls |-> calls]

\* A request, or the resumption of handler h with the response of the
\* collaborator it waited for.
NoInput == [kind |-> "none", id |-> 0, wallet |-> "", h |-> Blank,
            outcome |-> "sent", yes |-> FALSE, amount |-> 0]

\* No second server.
NoTwin == [turn |-> "off", in |-> NoInput, parked |-> <<>>]

\* Two servers are run side by side by taking turns on the variables of the
\* one: an input is chosen ("choose"), the first server takes it ("first"),
\* the servers change places ("swap"), the second takes the same input
\* ("second"), and they change places again ("back").  Turned is what a step
\* of a handler does to the turn; with no second server it does nothing.
Turned(t) ==
    IF t.turn = "first" THEN [t EXCEPT !.turn = "swap"]
    ELSE IF t.turn = "second" THEN [t EXCEPT !.turn = "back"]
    ELSE t

\* A request arrives and its handler reaches its first await.
Start(h) ==
    /\ BagCardinality(req) < MaxInFlight
    /\ req' = req (+) SetToBag({h})
    /\ UNCHANGED <<reply, employerKey>>
    /\ twin' = Turned(twin)

\* A request arrives and is answered before any await.
Answer(op, code) ==
    /\ reply' = [op |-> op, code |-> code, results |-> <<>>]
    /\ UNCHANGED <<req, employerKey>>
    /\ twin' = Turned(twin)

\* A handler goes from one await to the next.
Step(h, g) ==
    /\ req' = (req (-) SetToBag({h})) (+) SetToBag({g})
    /\ UNCHANGED <<reply, employerKey>>
    /\ twin' = Turned(twin)

Goto(h, pc) == Step(h, [h EXCEPT !.pc = pc])

\* A handler sends its response.
Finish(h, code, results) ==
    /\ req' = req (-) SetToBag({h})
    /\ reply' = [op |-> h.op, code |-> code, results |-> results]
    /\ UNCHANGED employerKey
    /\ twin' = Turned(twin)

Respond(h, code) == Finish(h, code, <<>>)

\* POST /api/users
RegisterStart(username, pwLen, walletAddress) ==
    /\ Len(users) + InFlight("register") < MaxUsers
    /\ IF username = "" \/ pwLen = 0 \/ pwLen < 6
          \/ (walletAddress # "" /\ ~isValidWalletAddress(walletAddress))
       THEN Answer("register", 400)
       ELSE Start([Blank EXCEPT !.op = "register", !.pc = "checked",
                        !.name = username, !.wallet = walletAddress,
                        !.id = getUserByUsername(users, username)])
    /\ UNCHANGED <<store, calls>>

\* resumes with `existing`; starts bcrypt.hash
RegisterHash(h) ==
    /\ At(h, "register", "checked")
    /\ IF h.id # Null THEN Respond(h, 409) ELSE Goto(h, "hashing")
    /\ UNCHANGED <<store, calls>>

\* bcrypt.hash returned; createUser
RegisterCreate(h) ==
    /\ At(h, "register", "hashing")
    /\ users' = createUser(users, h.name, h.wallet)
    /\ Goto(h, "created")
    /\ UNCHANGED <<tasks, submissions, payments, budgetData, calls>>

\* createUser returned: the 201
RegisterCreated(h) ==
    /\ At(h, "register", "created")
    /\ Respond(h, 201)
    /\ UNCHANGED <<store, calls>>

\* POST /api/tasks.  createTaskRequestSchema: rewardSol parses to a number
\* above 0, maxSubmissions is a positive integer.
CreateTask(rewardSol, maxSubmissions) ==
    /\ Len(tasks) + InFlight("generate") < MaxTasks
    /\ IF isNaN(rewardSol) \/ ~Gt(rewardSol, 0) \/ ~(maxSubmissions > 0)
       THEN Answer("createTask", 400) /\ UNCHANGED tasks
       ELSE IF Gt(rewardSol, MAX_PAYMENT_AMOUNT_SOL)
            THEN Answer("createTask", 400) /\ UNCHANGED tasks
            ELSE /\ tasks' = createTask(tasks, rewardSol, maxSubmissions)
                 /\ Start([Blank EXCEPT !.op = "createTask", !.pc = "created",
                                  !.id = Len(tasks) + 1])
    /\ UNCHANGED <<users, submissions, payments, budgetData, calls>>

\* createTask returned: the 201
CreateTaskCreated(h) ==
    /\ At(h, "createTask", "created")
    /\ Respond(h, 201)
    /\ UNCHANGED <<store, calls>>

\* POST /api/tasks/generate
GenerateStart(contextGiven, budgetGiven, budgetSol) ==
    /\ Len(tasks) + InFlight("generate") < MaxTasks
    /\ IF ~contextGiven \/ ~budgetGiven
       THEN Answer("generate", 400)
       ELSE IF isNaN(budgetSol) \/ Leq(budgetSol, 0)
            THEN Answer("generate", 400)
            ELSE Start([Blank EXCEPT !.op = "generate", !.pc = "generating"])
    /\ UNCHANGED <<store, calls>>

\* A generated item that passes every reward check but `reward > MAX`.
IsPositiveReward(reward) == ~(isNaN(reward) \/ Leq(reward, 0))

\* the negation of the `continue` condition of the creation loop
IsValidReward(reward) ==
    ~(isNaN(reward) \/ Leq(reward, 0) \/ Gt(reward, MAX_PAYMENT_AMOUNT_SOL))

\* The items left once the loop has skipped the invalid ones at the front.
RECURSIVE SkipInvalid(_)
SkipInvalid(queue) ==
    IF queue = <<>> \/ Head(queue) = NullItem \/ IsValidReward(Head(queue))
    THEN queue
    ELSE SkipInvalid(Tail(queue))

\* The creation loop up to its next await: createTask for the next valid
\* item, the 500 of the catch when the next item is null (the Tasks created
\* before it stay), or the 201 when no item is left.  amount counts
\* createdTasks.
GenerateNext(h, queue) ==
    LET rest == SkipInvalid(queue) IN
    IF rest = <<>>
    THEN /\ Finish(h, 201, <<h.amount>>)
         /\ UNCHANGED tasks
    ELSE IF Head(rest) = NullItem
    THEN /\ Respond(h, 500)
         /\ UNCHANGED tasks
    ELSE /\ tasks' = createTask(tasks, Head(rest), 1)
         /\ Step(h, [h EXCEPT !.pc = "created", !.queue = Tail(rest),
                               !.amount = @ + 1])

\* generateTasks returned
GenerateReturned(h, generated) ==
    /\ At(h, "generate", "generating")
    /\ IF generated = <<>>
       THEN Respond(h, 500) /\ UNCHANGED tasks
       ELSE GenerateNext(h, generated)
    /\ UNCHANGED <<users, submissions, payments, budgetData, calls>>

\* createTask returned
GenerateCreated(h) ==
    /\ At(h, "generate", "created")
    /\ GenerateNext(h, h.queue)
    /\ UNCHANGED <<users, submissions, payments, budgetData, calls>>

\* POST /api/tasks/:id/claim
ClaimStart(taskId, workerId) ==
    /\ IF workerId = Null
       THEN Answer("claim", 400)
       ELSE Start([Blank EXCEPT !.op = "claim", !.pc = "worker",
                        !.id = taskId, !.worker = workerId,
                        !.found = workerId \in DOMAIN users])
    /\ UNCHANGED <<store, calls>>

ClaimGetTask(h) ==
    /\ At(h, "claim", "worker")
    /\ IF ~h.found
       THEN Respond(h, 404)
       ELSE Step(h, [h EXCEPT !.pc = "task", !.found = h.id \in DOMAIN tasks])
    /\ UNCHANGED <<store, calls>>

\* A claim that binds the worker whatever the status of the Task.
ClaimAssignAnyStatus(h) ==
    /\ At(h, "claim", "task")
    /\ IF ~h.found
       THEN Respond(h, 404) /\ UNCHANGED tasks
       ELSE /\ tasks' = assignTask(tasks, h.id, h.worker)
            /\ Goto(h, "assigned")
    /\ UNCHANGED <<users, submissions, payments, budgetData, calls>>

ClaimAssign(h) ==
    /\ At(h, "claim", "task")
    /\ IF ~h.found
       THEN Respond(h, 404) /\ UNCHANGED tasks
       ELSE IF tasks[h.id].status # OPEN
            THEN Respond(h, 400) /\ UNCHANGED tasks
            ELSE /\ tasks' = assignTask(tasks, h.id, h.worker)
                 /\ Goto(h, "assigned")
    /\ UNCHANGED <<users, submissions, payments, budgetData, calls>>

\* assignTask returned: getTask is called for the response
ClaimReread(h) ==
    /\ At(h, "claim", "assigned")
    /\ Goto(h, "reread")
    /\ UNCHANGED <<store, calls>>

\* getTask returned: the 200
ClaimRespond(h) ==
    /\ At(h, "claim", "reread")
    /\ Respond(h, 200)
    /\ UNCHANGED <<store, calls>>

\* POST /api/submissions
SubmitStart(taskId, workerId) ==
    /\ Len(submissions) + InFlight("submit") < MaxSubs
    /\ IF taskId = Null \/ workerId = Null
       THEN Answer("submit", 400)
       ELSE Start([Blank EXCEPT !.op = "submit", !.pc = "worker",
                        !.id = taskId, !.worker = workerId,
                        !.found = workerId \in DOMAIN users])
    /\ UNCHANGED <<store, calls>>

SubmitGetTask(h) ==
    /\ At(h, "submit", "worker")
    /\ IF ~h.found
       THEN Respond(h, 404)
       ELSE Step(h, [h EXCEPT !.pc = "task", !.found = h.id \in DOMAIN tasks])
    /\ UNCHANGED <<store, calls>>

\* A submit-proof with the status pre-check and no cap pre-check.
SubmitCreateNoCap(h) ==
    /\ At(h, "submit", "task")
    /\ IF ~h.found
       THEN Respond(h, 404) /\ UNCHANGED submissions
       ELSE IF tasks[h.id].status = TASK_COMPLETED \/ tasks[h.id].status = CANCELLED
            THEN Respond(h, 400) /\ UNCHANGED submissions
            ELSE /\ submissions' = createSubmission(submissions, h.id, h.worker)
                 /\ Goto(h, "created")
    /\ UNCHANGED <<users, tasks, payments, budgetData, calls>>

\* the status and cap pre-checks, then createSubmission
SubmitCreate(h) ==
    /\ At(h, "submit", "task")
    /\ IF ~h.found
       THEN Respond(h, 404) /\ UNCHANGED submissions
       ELSE LET task == tasks[h.id] IN
            IF task.status = TASK_COMPLETED \/ task.status = CANCELLED
            THEN Respond(h, 400) /\ UNCHANGED submissions
            ELSE IF task.maxSubmissions # 0
                    /\ task.currentSubmissions >= task.maxSubmissions
                 THEN Respond(h, 400) /\ UNCHANGED submissions
                 ELSE /\ submissions' = createSubmission(submissions, h.id, h.worker)
                      /\ Goto(h, "created")
    /\ UNCHANGED <<users, tasks, payments, budgetData, calls>>

\* A submit-proof that goes on to its 201 without incrementTaskSubmissions.
SubmitIncrementSkipped(h) ==
    /\ At(h, "submit", "created")
    /\ Goto(h, "incremented")
    /\ UNCHANGED <<users, tasks, submissions, payments, budgetData, calls>>

\* createSubmission returned: incrementTaskSubmissions
SubmitIncrement(h) ==
    /\ At(h, "submit", "created")
    /\ tasks' = incrementTaskSubmissions(tasks, h.id)
    /\ Goto(h, "incremented")
    /\ UNCHANGED <<users, submissions, payments, budgetData, calls>>

\* incrementTaskSubmissions returned: the 201
SubmitRespond(h) ==
    /\ At(h, "submit", "incremented")
    /\ Respond(h, 201)
    /\ UNCHANGED <<store, calls>>

NoCalls == [sends |-> 0, succeeded |-> {}, confirmed |-> {}, earned |-> 0, paidOut |-> 0]

\* POST /api/submissions/:id/verify
VerifyOneStart(submissionId) ==
    /\ Start([Blank EXCEPT !.op = "verifyOne", !.pc = "submission",
                    !.id = submissionId, !.found = submissionId \in DOMAIN submissions])
    /\ UNCHANGED <<store, calls>>

\* A verify-one that does not look at the status of the Submission.
VerifyOneCheckAnyStatus(h) ==
    /\ At(h, "verifyOne", "submission")
    /\ IF ~h.found
       THEN Respond(h, 404)
       ELSE Step(h, [h EXCEPT !.pc = "task",
                       !.found = submissions[h.id].taskId \in DOMAIN tasks])
    /\ UNCHANGED <<store, calls>>

VerifyOneCheck(h) ==
    /\ At(h, "verifyOne", "submission")
    /\ IF ~h.found
       THEN Respond(h, 404)
       ELSE IF submissions[h.id].status # SUB_PENDING
            THEN Respond(h, 400)
            ELSE Step(h, [h EXCEPT !.pc = "task",
                            !.found = submissions[h.id].taskId \in DOMAIN tasks])
    /\ UNCHANGED <<store, calls>>

\* calls verifySubmission
VerifyOneJudge(h) ==
    /\ At(h, "verifyOne", "task")
    /\ IF ~h.found THEN Respond(h, 404) ELSE Goto(h, "judging")
    /\ UNCHANGED <<store, calls>>

\* verifySubmission returned
VerifyOneVerdict(h, judged) ==
    /\ At(h, "verifyOne", "judging")
    /\ LET result == verifySubmission(judged) IN
       IF StartsWithThrows(result)
       THEN Respond(h, 500) /\ UNCHANGED submissions
       ELSE IF IsServiceError(result)
       THEN Respond(h, 500) /\ UNCHANGED submissions
       ELSE /\ submissions' = updateSubmissionStatus(submissions, h.id,
                                  IF result.approved THEN APPROVED ELSE REJECTED,
                                  result.reasoning, result.score)
            /\ Step(h, [h EXCEPT !.pc = "updated", !.ok = result.approved])
    /\ UNCHANGED <<users, tasks, payments, budgetData, calls>>

\* updateSubmissionStatus returned: getUser of the worker on approval,
\* getSubmission for the response on rejection
VerifyOneUpdated(h) ==
    /\ At(h, "verifyOne", "updated")
    /\ IF h.ok THEN Goto(h, "worker") ELSE Goto(h, "reread")
    /\ UNCHANGED <<store, calls>>

\* A verify-one that creates the Payment whether or not the worker has a
\* wallet address.
VerifyOnePayAnyWorker(h) ==
    /\ At(h, "verifyOne", "worker")
    /\ LET submission == submissions[h.id] IN
       /\ payments' = createPayment(payments, h.id, submission.taskId,
                          submission.workerId,
                          users[submission.workerId].walletAddress,
                          tasks[submission.taskId].rewardSol)
       /\ calls' = Append(calls, NoCalls)
       /\ Goto(h, "paid")
    /\ UNCHANGED <<users, tasks, submissions, budgetData>>

\* getUser returned: createPayment when the worker has a wallet address,
\* updateTaskStatus at once when not
VerifyOnePay(h) ==
    /\ At(h, "verifyOne", "worker")
    /\ LET submission == submissions[h.id] IN
       IF submission.workerId \in DOMAIN users
          /\ users[submission.workerId].walletAddress # ""
       THEN /\ payments' = createPayment(payments, h.id, submission.taskId,
                               submission.workerId,
                               users[submission.workerId].walletAddress,
                               tasks[submission.taskId].rewardSol)
            /\ calls' = Append(calls, NoCalls)
            /\ Goto(h, "paid")
            /\ UNCHANGED tasks
       ELSE /\ tasks' = updateTaskStatus(tasks, submission.taskId, TASK_COMPLETED)
            /\ Goto(h, "completed")
            /\ UNCHANGED <<payments, calls>>
    /\ UNCHANGED <<users, submissions, budgetData>>

\* createPayment returned: updateTaskStatus
VerifyOneComplete(h) ==
    /\ At(h, "verifyOne", "paid")
    /\ tasks' = updateTaskStatus(tasks, submissions[h.id].taskId, TASK_COMPLETED)
    /\ Goto(h, "completed")
    /\ UNCHANGED <<users, submissions, payments, budgetData, calls>>

\* updateTaskStatus returned: getSubmission is called for the response
VerifyOneReread(h) ==
    /\ At(h, "verifyOne", "completed")
    /\ Goto(h, "reread")
    /\ UNCHANGED <<store, calls>>

\* getSubmission returned: the 200
VerifyOneRespond(h) ==
    /\ At(h, "verifyOne", "reread")
    /\ Respond(h, 200)
    /\ UNCHANGED <<store, calls>>

\* POST /api/verify/batch
VerifyAllStart ==
    /\ Start([Blank EXCEPT !.op = "verifyAll", !.pc = "list",
                    !.queue = getPendingSubmissions(submissions)])
    /\ UNCHANGED <<store, calls>>

\* The head of the loop: the response when no item is left, else getTask for
\* the next item.
VerifyAllNext(h, queue, results) ==
    IF queue = <<>>
    THEN Finish(h, 200, results)
    ELSE Step(h, [Blank EXCEPT !.op = "verifyAll", !.pc = "task",
                     !.queue = queue, !.results = results,
                     !.id = Head(queue),
                     !.found = submissions[Head(queue)].taskId \in DOMAIN tasks])

VerifyAllBegin(h) ==
    /\ At(h, "verifyAll", "list")
    /\ VerifyAllNext(h, h.queue, <<>>)
    /\ UNCHANGED <<store, calls>>

VerifyAllJudge(h) ==
    /\ At(h, "verifyAll", "task")
    /\ IF ~h.found
       THEN VerifyAllNext(h, Tail(h.queue), h.results)
       ELSE Goto(h, "judging")
    /\ UNCHANGED <<store, calls>>

VerifyAllVerdict(h, judged) ==
    /\ At(h, "verifyAll", "judging")
    /\ LET result == verifySubmission(judged) IN
       IF StartsWithThrows(result)
       THEN Finish(h, 500, <<>>) /\ UNCHANGED submissions
       ELSE IF IsServiceError(result)
       THEN /\ VerifyAllNext(h, Tail(h.queue),
                    Append(h.results,
                           [id |-> h.id, error |-> "Verification service error",
                            ok |-> FALSE, score |-> NoScore]))
            /\ UNCHANGED submissions
       ELSE /\ submissions' = updateSubmissionStatus(submissions, h.id,
                                  IF result.approved THEN APPROVED ELSE REJECTED,
                                  result.reasoning, result.score)
            /\ Step(h, [h EXCEPT !.pc = "updated", !.ok = result.approved,
                                  !.score = result.score])
    /\ UNCHANGED <<users, tasks, payments, budgetData, calls>>

VerifyAllPush(h) ==
    VerifyAllNext(h, Tail(h.queue),
        Append(h.results,
               [id |-> h.id, error |-> "", ok |-> h.ok, score |-> h.score]))

VerifyAllUpdated(h) ==
    /\ At(h, "verifyAll", "updated")
    /\ IF h.ok THEN Goto(h, "worker") ELSE VerifyAllPush(h)
    /\ UNCHANGED <<store, calls>>

VerifyAllPay(h) ==
    /\ At(h, "verifyAll", "worker")
    /\ LET submission == submissions[h.id] IN
       IF submission.workerId \in DOMAIN users
          /\ users[submission.workerId].walletAddress # ""
       THEN /\ payments' = createPayment(payments, h.id, submission.taskId,
                               submission.workerId,
                               users[submission.workerId].walletAddress,
                               tasks[submission.taskId].rewardSol)
            /\ calls' = Append(calls, NoCalls)
            /\ Goto(h, "paid")
            /\ UNCHANGED tasks
       ELSE /\ tasks' = updateTaskStatus(tasks, submission.taskId, TASK_COMPLETED)
            /\ Goto(h, "completed")
            /\ UNCHANGED <<payments, calls>>
    /\ UNCHANGED <<users, submissions, budgetData>>

VerifyAllComplete(h) ==
    /\ At(h, "verifyAll", "paid")
    /\ tasks' = updateTaskStatus(tasks, submissions[h.id].taskId, TASK_COMPLETED)
    /\ Goto(h, "completed")
    /\ UNCHANGED <<users, submissions, payments, budgetData, calls>>

VerifyAllResult(h) ==
    /\ At(h, "verifyAll", "completed")
    /\ VerifyAllPush(h)
    /\ UNCHANGED <<store, calls>>

\* ------------------------------------------------------ services/solana.ts

\* What a transfer can come to once the recipient address is accepted:
\* "sent", "notConfigured" (getEmployerWallet returns null), "insufficient"
\* (the employer's balance is below the amount), or an RPC call failed and
\* the catch of sendPayment returned the failure: "threw" (an Error with a
\* message), "threwEmpty" (an Error whose message is empty) and "threwValue"
\* (a thrown value that is no Error).
ExecutorOutcomes ==
    {"sent", "notConfigured", "insufficient", "threw", "threwEmpty", "threwValue"}

\* The outcomes the environment allows: "notConfigured" exactly when the
\* employer key is missing.
Configured(outcome) == (outcome = "notConfigured") <=> ~employerKey

\* callNo numbers the calls made for one Payment; the signature of the
\* transaction a call sends is that number.
sendPayment(toAddress, amountSol, outcome, callNo) ==
    IF ~isValidWalletAddress(toAddress)
    THEN [success |-> FALSE, signature |-> Null, error |-> "Invalid recipient wallet address"]
    ELSE IF outcome = "notConfigured"
    THEN [success |-> FALSE, signature |-> Null, error |-> "Employer wallet not configured"]
    ELSE IF outcome = "insufficient"
    THEN [success |-> FALSE, signature |-> Null, error |-> "Insufficient balance"]
    ELSE IF outcome = "threw"
    THEN [success |-> FALSE, signature |-> Null, error |-> "RPC down"]
    ELSE IF outcome = "threwEmpty"
    THEN [success |-> FALSE, signature |-> Null, error |-> ""]
    ELSE IF outcome = "threwValue"
    THEN [success |-> FALSE, signature |-> Null, error |-> "Unknown payment error"]
    ELSE [success |-> TRUE, signature |-> callNo, error |-> ""]

\* ------------------------------------------------- settlement handlers

\* POST /api/payments/:id/process
SettleOneStart(paymentId) ==
    /\ Start([Blank EXCEPT !.op = "settleOne", !.pc = "payment",
                    !.id = paymentId, !.found = paymentId \in DOMAIN payments])
    /\ UNCHANGED <<store, calls>>

\* A settle-one that does not look at the status of the Payment.
SettleOneCommitAnyStatus(h) ==
    /\ At(h, "settleOne", "payment")
    /\ IF ~h.found
       THEN Respond(h, 404) /\ UNCHANGED payments
       ELSE LET payment == payments[h.id] IN
            IF payment.amountSol <= 0
            THEN Respond(h, 400) /\ UNCHANGED payments
            ELSE IF payment.amountSol > MAX_PAYMENT_AMOUNT_SOL
            THEN Respond(h, 400) /\ UNCHANGED payments
            ELSE IF ~isValidWalletAddress(payment.walletAddress)
            THEN /\ payments' = updatePaymentStatus(payments, h.id, FAILED,
                                    Null, "Invalid wallet address")
                 /\ Goto(h, "invalid")
            ELSE /\ payments' = updatePaymentStatus(payments, h.id, PROCESSING,
                                    Null, "")
                 /\ Goto(h, "processing")
    /\ UNCHANGED <<users, tasks, submissions, budgetData, calls>>

\* A settle-one that refuses a Payment the recorded balance does not cover.
SettleOneCommitWithinBalance(h) ==
    /\ At(h, "settleOne", "payment")
    /\ IF ~h.found
       THEN Respond(h, 404) /\ UNCHANGED payments
       ELSE LET payment == payments[h.id] IN
            IF payment.status # PAY_PENDING
            THEN Respond(h, 400) /\ UNCHANGED payments
            ELSE IF budgetData.present /\ budgetData.balanceSol < payment.amountSol
            THEN Respond(h, 400) /\ UNCHANGED payments
            ELSE /\ payments' = updatePaymentStatus(payments, h.id, PROCESSING,
                                    Null, "")
                 /\ Goto(h, "processing")
    /\ UNCHANGED <<users, tasks, submissions, budgetData, calls>>

\* the status, amount and address checks, then the write of processing
SettleOneCommit(h) ==
    /\ At(h, "settleOne", "payment")
    /\ IF ~h.found
       THEN Respond(h, 404) /\ UNCHANGED payments
       ELSE LET payment == payments[h.id] IN
            IF payment.status # PAY_PENDING
            THEN Respond(h, 400) /\ UNCHANGED payments
            ELSE IF payment.amountSol <= 0
            THEN Respond(h, 400) /\ UNCHANGED payments
            ELSE IF payment.amountSol > MAX_PAYMENT_AMOUNT_SOL
            THEN Respond(h, 400) /\ UNCHANGED payments
            ELSE IF ~isValidWalletAddress(payment.walletAddress)
            THEN /\ payments' = updatePaymentStatus(payments, h.id, FAILED,
                                    Null, "Invalid wallet address")
                 /\ Goto(h, "invalid")
            ELSE /\ payments' = updatePaymentStatus(payments, h.id, PROCESSING,
                                    Null, "")
                 /\ Goto(h, "processing")
    /\ UNCHANGED <<users, tasks, submissions, budgetData, calls>>

\* calls sendPayment
SettleOneSend(h) ==
    /\ At(h, "settleOne", "processing")
    /\ calls' = [calls EXCEPT ![h.id].sends = @ + 1]
    /\ Step(h, [h EXCEPT !.pc = "sending", !.sig = calls[h.id].sends + 1])
    /\ UNCHANGED store

\* sendPayment returned: verifyTransaction is called on success
SettleOneSent(h, outcome) ==
    /\ At(h, "settleOne", "sending")
    /\ Configured(outcome)
    /\ LET payment == payments[h.id]
           result == sendPayment(payment.walletAddress, payment.amountSol,
                                 outcome, h.sig)
       IN  IF result.success /\ result.signature # Null
           THEN /\ calls' = [calls EXCEPT ![h.id].succeeded = @ \cup {result.signature}]
                /\ Goto(h, "confirming")
                /\ UNCHANGED payments
           ELSE /\ payments' = updatePaymentStatus(payments, h.id, FAILED,
                                   Null, result.error)
                /\ Goto(h, "failed")
                /\ UNCHANGED calls
    /\ UNCHANGED <<users, tasks, submissions, budgetData>>

\* A settle-one that completes the Payment whatever verifyTransaction says.
SettleOneConfirmedAnyway(h, confirmed) ==
    /\ At(h, "settleOne", "confirming")
    /\ payments' = updatePaymentStatus(payments, h.id, PAY_COMPLETED, h.sig, "")
    /\ calls' = [calls EXCEPT ![h.id].confirmed = @ \cup {h.sig}]
    /\ Goto(h, "completed")
    /\ UNCHANGED <<users, tasks, submissions, budgetData>>

\* verifyTransaction returned
SettleOneConfirmed(h, confirmed) ==
    /\ At(h, "settleOne", "confirming")
    /\ IF ~confirmed
       THEN /\ payments' = updatePaymentStatus(payments, h.id, FAILED,
                               Null, "Transaction not confirmed")
            /\ Goto(h, "unconfirmed")
            /\ UNCHANGED calls
       ELSE /\ payments' = updatePaymentStatus(payments, h.id, PAY_COMPLETED,
                               h.sig, "")
            /\ calls' = [calls EXCEPT ![h.id].confirmed = @ \cup {h.sig}]
            /\ Goto(h, "completed")
    /\ UNCHANGED <<users, tasks, submissions, budgetData>>

SettleOneEarn(h) ==
    /\ At(h, "settleOne", "completed")
    /\ users' = updateUserEarnings(users, payments[h.id].workerId,
                                   payments[h.id].amountSol)
    /\ calls' = [calls EXCEPT ![h.id].earned = @ + 1]
    /\ Goto(h, "earned")
    /\ UNCHANGED <<tasks, submissions, payments, budgetData>>

SettleOnePaidOut(h) ==
    /\ At(h, "settleOne", "earned")
    /\ budgetData' = addToPaidOut(budgetData, payments[h.id].amountSol)
    /\ calls' = [calls EXCEPT ![h.id].paidOut =
                    IF budgetData'.totalPaidOut # budgetData.totalPaidOut THEN @ + 1 ELSE @]
    /\ Goto(h, "paidOut")
    /\ UNCHANGED <<users, tasks, submissions, payments>>

\* updatePaymentStatus(failed) of an early return came back: the 400 after
\* "Invalid wallet address", the 500 after "Transaction not confirmed"
SettleOneRefused(h) ==
    /\ BagIn(h, req) /\ h.op = "settleOne" /\ h.pc \in {"invalid", "unconfirmed"}
    /\ Respond(h, IF h.pc = "invalid" THEN 400 ELSE 500)
    /\ UNCHANGED <<store, calls>>

\* The last write returned (addToPaidOut after a transfer, updatePaymentStatus
\* after a failed one): res.status is set and getPayment is called for the
\* body of the response.
SettleOneReread(h) ==
    /\ BagIn(h, req) /\ h.op = "settleOne" /\ h.pc \in {"failed", "paidOut"}
    /\ Goto(h, IF h.pc = "failed" THEN "reread500" ELSE "reread200")
    /\ UNCHANGED <<store, calls>>

\* getPayment returned: the response
SettleOneRespond(h) ==
    /\ BagIn(h, req) /\ h.op = "settleOne" /\ h.pc \in {"reread500", "reread200"}
    /\ Respond(h, IF h.pc = "reread500" THEN 500 ELSE 200)
    /\ UNCHANGED <<store, calls>>

\* POST /api/payments/process-all
SettleAllStart ==
    /\ Start([Blank EXCEPT !.op = "settleAll", !.pc = "list",
                    !.queue = getPendingPayments(payments)])
    /\ UNCHANGED <<store, calls>>

\* The head of the loop: the response when no item is left, else the amount
\* and address checks of the next item and the write of processing.
SettleAllNext(h, queue, results) ==
    IF queue = <<>>
    THEN /\ Finish(h, 200, results)
         /\ UNCHANGED payments
    ELSE LET id == Head(queue)
             payment == payments[id]
             item == [Blank EXCEPT !.op = "settleAll", !.queue = queue,
                         !.results = results, !.id = id]
         IN  IF payment.amountSol <= 0 \/ payment.amountSol > MAX_PAYMENT_AMOUNT_SOL
             THEN /\ payments' = updatePaymentStatus(payments, id, FAILED,
                                     Null, "Invalid payment amount")
                  /\ Step(h, [item EXCEPT !.pc = "skipped",
                                       !.err = "Invalid payment amount"])
             ELSE IF ~isValidWalletAddress(payment.walletAddress)
             THEN /\ payments' = updatePaymentStatus(payments, id, FAILED,
                                     Null, "Invalid wallet address")
                  /\ Step(h, [item EXCEPT !.pc = "skipped",
                                       !.err = "Invalid wallet address"])
             ELSE /\ payments' = updatePaymentStatus(payments, id, PROCESSING, Null, "")
                  /\ Step(h, [item EXCEPT !.pc = "processing"])

SettleAllBegin(h) ==
    /\ At(h, "settleAll", "list")
    /\ SettleAllNext(h, h.queue, <<>>)
    /\ UNCHANGED <<users, tasks, submissions, budgetData, calls>>

SettleAllPush(h) ==
    SettleAllNext(h, Tail(h.queue),
        Append(h.results,
               [id |-> h.id, success |-> h.ok,
                signature |-> IF h.ok THEN h.sig ELSE Null,
                error |-> h.err]))

SettleAllSend(h) ==
    /\ At(h, "settleAll", "processing")
    /\ calls' = [calls EXCEPT ![h.id].sends = @ + 1]
    /\ Step(h, [h EXCEPT !.pc = "sending", !.sig = calls[h.id].sends + 1])
    /\ UNCHANGED store

\* sendPayment returned: completed on success, with no call of verifyTransaction
SettleAllSent(h, outcome) ==
    /\ At(h, "settleAll", "sending")
    /\ Configured(outcome)
    /\ LET payment == payments[h.id]
           result == sendPayment(payment.walletAddress, payment.amountSol,
                                 outcome, h.sig)
       IN  IF result.success /\ result.signature # Null
           THEN /\ payments' = updatePaymentStatus(payments, h.id, PAY_COMPLETED,
                                   result.signature, "")
                /\ calls' = [calls EXCEPT ![h.id].succeeded = @ \cup {result.signature}]
                /\ Step(h, [h EXCEPT !.pc = "completed", !.ok = TRUE])
           ELSE /\ payments' = updatePaymentStatus(payments, h.id, FAILED,
                                   Null, result.error)
                /\ Step(h, [h EXCEPT !.pc = "settled", !.ok = result.success,
                                      !.err = result.error])
                /\ UNCHANGED calls
    /\ UNCHANGED <<users, tasks, submissions, budgetData>>

SettleAllEarn(h) ==
    /\ At(h, "settleAll", "completed")
    /\ users' = updateUserEarnings(users, payments[h.id].workerId,
                                   payments[h.id].amountSol)
    /\ calls' = [calls EXCEPT ![h.id].earned = @ + 1]
    /\ Goto(h, "earned")
    /\ UNCHANGED <<tasks, submissions, payments, budgetData>>

SettleAllPaidOut(h) ==
    /\ At(h, "settleAll", "earned")
    /\ budgetData' = addToPaidOut(budgetData, payments[h.id].amountSol)
    /\ calls' = [calls EXCEPT ![h.id].paidOut =
                    IF budgetData'.totalPaidOut # budgetData.totalPaidOut THEN @ + 1 ELSE @]
    /\ Goto(h, "settled")
    /\ UNCHANGED <<users, tasks, submissions, payments>>

\* results.push, after an item was skipped or after its transfer was settled
SettleAllResult(h) ==
    /\ BagIn(h, req) /\ h.op = "settleAll" /\ h.pc \in {"skipped", "settled"}
    /\ SettleAllPush(h)
    /\ UNCHANGED <<users, tasks, submissions, budgetData, calls>>

\* The employer's address, "" for null.
getEmployerAddress == IF employerKey THEN "employer" ELSE ""

\* POST /api/budget/claim-rewards.  wallet is req.body.wallet, or the employer
\* address when the body names none; with neither the request is refused
\* ("Wallet address required").
ClaimRewardsStart(wallet) ==
    /\ LET walletAddress == IF wallet # "" THEN wallet ELSE getEmployerAddress IN
       IF walletAddress = ""
       THEN Answer("claimRewards", 400)
       ELSE IF ~isValidWalletAddress(walletAddress)
       THEN Answer("claimRewards", 400)
       ELSE /\ budgetData.balanceSol + InFlight("claimRewards") < MaxBalance
            /\ Start([Blank EXCEPT !.op = "claimRewards",
                          !.pc = "claiming", !.wallet = walletAddress])
    /\ UNCHANGED <<store, calls>>

\* claimCreatorRewards returned
ClaimRewardsClaimed(h, success, amountClaimed) ==
    /\ At(h, "claimRewards", "claiming")
    /\ IF success /\ amountClaimed # 0
       THEN Step(h, [h EXCEPT !.pc = "budget", !.amount = amountClaimed,
                              !.found = budgetData.present])
       ELSE Respond(h, 200)
    /\ UNCHANGED <<store, calls>>

ClaimRewardsUpdate(h) ==
    /\ At(h, "claimRewards", "budget")
    /\ budgetData' = updateBudget(budgetData,
                        (IF h.found THEN budgetData.balanceSol ELSE 0)
                            + h.amount,
                        h.wallet)
    /\ Goto(h, "updated")
    /\ UNCHANGED <<users, tasks, submissions, payments, calls>>

\* updateBudget returned: the 200
ClaimRewardsRespond(h) ==
    /\ At(h, "claimRewards", "updated")
    /\ Respond(h, 200)
    /\ UNCHANGED <<store, calls>>

\* ------------------------------------------------------- specifications

UserIds == 1..MaxUsers
TaskIds == 1..MaxTasks

\* The requests that may arrive, and the steps of a handler in progress.
UserArrivals ==
    \E u \in Usernames, l \in PasswordLengths, w \in WalletInputs :
        RegisterStart(u, l, w)

UserSteps ==
    \/ \E h \in BagToSet(req) : RegisterHash(h)
    \/ \E h \in BagToSet(req) : RegisterCreate(h)
    \/ \E h \in BagToSet(req) : RegisterCreated(h)

CreateArrivals ==
    \/ \E rw \in RewardInputs, c \in CapInputs : CreateTask(rw, c)
    \/ \E c, b \in BOOLEAN, a \in BudgetInputs : GenerateStart(c, b, a)

CreateSteps ==
    \/ \E h \in BagToSet(req) : CreateTaskCreated(h)
    \/ \E h \in BagToSet(req), g \in GeneratedLists : GenerateReturned(h, g)
    \/ \E h \in BagToSet(req) : GenerateCreated(h)

ClaimArrivals ==
    \E t \in TaskIds, w \in UserIds : ClaimStart(t, w)

ClaimSteps ==
    \/ \E h \in BagToSet(req) : ClaimGetTask(h)
    \/ \E h \in BagToSet(req) : ClaimAssign(h)
    \/ \E h \in BagToSet(req) : ClaimReread(h)
    \/ \E h \in BagToSet(req) : ClaimRespond(h)

SubmitArrivals ==
    \E t \in TaskIds, w \in UserIds : SubmitStart(t, w)

SubmitSteps ==
    \/ \E h \in BagToSet(req) : SubmitGetTask(h)
    \/ \E h \in BagToSet(req) : SubmitCreate(h)
    \/ \E h \in BagToSet(req) : SubmitIncrement(h)
    \/ \E h \in BagToSet(req) : SubmitRespond(h)

TaskArrivals == CreateArrivals \/ ClaimArrivals \/ SubmitArrivals

TaskSteps == CreateSteps \/ ClaimSteps \/ SubmitSteps

VerifyOneArrivals ==
    \E s \in DOMAIN submissions : VerifyOneStart(s)

VerifyOneSteps ==
    \/ \E h \in BagToSet(req) : VerifyOneCheck(h)
    \/ \E h \in BagToSet(req) : VerifyOneJudge(h)
    \/ \E h \in BagToSet(req), j \in JudgeReplies : VerifyOneVerdict(h, j)
    \/ \E h \in BagToSet(req) : VerifyOneUpdated(h)
    \/ \E h \in BagToSet(req) : VerifyOnePay(h)
    \/ \E h \in BagToSet(req) : VerifyOneComplete(h)
    \/ \E h \in BagToSet(req) : VerifyOneReread(h)
    \/ \E h \in BagToSet(req) : VerifyOneRespond(h)

VerifyAllSteps ==
    \/ \E h \in BagToSet(req) : VerifyAllBegin(h)
    \/ \E h \in BagToSet(req) : VerifyAllJudge(h)
    \/ \E h \in BagToSet(req), j \in JudgeReplies : VerifyAllVerdict(h, j)
    \/ \E h \in BagToSet(req) : VerifyAllUpdated(h)
    \/ \E h \in BagToSet(req) : VerifyAllPay(h)
    \/ \E h \in BagToSet(req) : VerifyAllComplete(h)
    \/ \E h \in BagToSet(req) : VerifyAllResult(h)

VerifyArrivals == VerifyOneArrivals \/ VerifyAllStart

VerifySteps == VerifyOneSteps \/ VerifyAllSteps

SettleArrivals ==
    \/ \E p \in DOMAIN payments : SettleOneStart(p)
    \/ SettleAllStart

SettleOneSteps ==
    \/ \E h \in BagToSet(req) : SettleOneCommit(h)
    \/ \E h \in BagToSet(req) : SettleOneSend(h)
    \/ \E h \in BagToSet(req), o \in ExecutorOutcomes : SettleOneSent(h, o)
    \/ \E h \in BagToSet(req), c \in BOOLEAN : SettleOneConfirmed(h, c)
    \/ \E h \in BagToSet(req) : SettleOneEarn(h)
    \/ \E h \in BagToSet(req) : SettleOnePaidOut(h)
    \/ \E h \in BagToSet(req) : SettleOneRefused(h)
    \/ \E h \in BagToSet(req) : SettleOneReread(h)
    \/ \E h \in BagToSet(req) : SettleOneRespond(h)

SettleAllSteps ==
    \/ \E h \in BagToSet(req) : SettleAllBegin(h)
    \/ \E h \in BagToSet(req) : SettleAllSend(h)
    \/ \E h \in BagToSet(req), o \in ExecutorOutcomes : SettleAllSent(h, o)
    \/ \E h \in BagToSet(req) : SettleAllEarn(h)
    \/ \E h \in BagToSet(req) : SettleAllPaidOut(h)
    \/ \E h \in BagToSet(req) : SettleAllResult(h)

SettleSteps == SettleOneSteps \/ SettleAllSteps

BudgetArrivals ==
    \E w \in WalletInputs : ClaimRewardsStart(w)

BudgetSteps ==
    \/ \E h \in BagToSet(req), ok \in BOOLEAN, a \in ClaimedAmounts : ClaimRewardsClaimed(h, ok, a)
    \/ \E h \in BagToSet(req) : ClaimRewardsUpdate(h)
    \/ \E h \in BagToSet(req) : ClaimRewardsRespond(h)

\* The server after construction, and every operation.
Init ==
    /\ users = <<>>
    /\ tasks = <<>>
    /\ submissions = <<>>
    /\ payments = <<>>
    /\ budgetData = NoBudget
    /\ req = EmptyBag
    /\ reply = NoReply
    /\ calls = <<>>
    /\ employerKey \in BOOLEAN
    /\ twin = NoTwin

Next ==
    \/ UserArrivals
    \/ TaskArrivals
    \/ VerifyArrivals
    \/ SettleArrivals
    \/ BudgetArrivals
    \/ UserSteps
    \/ TaskSteps
    \/ VerifySteps
    \/ SettleSteps
    \/ BudgetSteps

Spec == Init /\ [][Next]_vars

(***************************************************************************)
(* The claims are checked on the stages of a Task's life, each started in  *)
(* states the stage before it reaches, with no request in progress.        *)
(***************************************************************************)

\* Registration from the empty store: requests to POST /api/users arrive
\* and their handlers run, any number of them at once.
NextUsers == UserArrivals \/ UserSteps

SpecUsers == Init /\ [][NextUsers]_vars

\* Two workers have registered: alice with a payout address, bob without.
Registered ==
    << [username |-> "alice", walletAddress |-> "addrA",
        totalEarnings |-> 0, tasksCompleted |-> 0],
       [username |-> "bob", walletAddress |-> "",
        totalEarnings |-> 0, tasksCompleted |-> 0] >>

\* Task creation, claim and submit-proof.
InitTasks ==
    /\ users = Registered
    /\ tasks = <<>>
    /\ submissions = <<>>
    /\ payments = <<>>
    /\ budgetData = NoBudget
    /\ req = EmptyBag
    /\ reply = [op |-> "register", code |-> 201, results |-> <<>>]
    /\ calls = <<>>
    /\ employerKey \in BOOLEAN
    /\ twin = NoTwin

NextTasks == TaskArrivals \/ TaskSteps

SpecTasks == InitTasks /\ [][NextTasks]_vars

\* The reward of the i-th Task of an initial state.
RewardOf(i) == IF i % 2 = 1 THEN 3 ELSE 10

\* Verification: one Task claimed by alice whose cap n has been reached by n
\* Submissions, the first from alice, the second from bob, and so on.
InitVerify ==
    \E n \in 1..MaxSubs :
        /\ users = Registered
        /\ tasks = << [rewardSol |-> RewardOf(n), status |-> PENDING_VERIFICATION,
                       maxSubmissions |-> n, currentSubmissions |-> n,
                       assignedTo |-> 1] >>
        /\ submissions = [i \in 1..n |->
                            [taskId |-> 1, workerId |-> 2 - (i % 2),
                             status |-> SUB_PENDING,
                             aiVerificationResult |-> NullStr,
                             aiVerificationScore |-> NoScore,
                             verifiedAt |-> Null]]
        /\ payments = <<>>
        /\ budgetData = NoBudget
        /\ req = EmptyBag
        /\ reply = [op |-> "submit", code |-> 201, results |-> <<>>]
        /\ calls = <<>>
        /\ employerKey \in BOOLEAN
        /\ twin = NoTwin

NextVerify == VerifyArrivals \/ VerifySteps

SpecVerify == InitVerify /\ [][NextVerify]_vars

\* Settlement: n Tasks of cap 1, each completed by one approved Submission
\* of alice, each with its Payment pending; the Budget record absent, or
\* created by one balance observation.
InitSettleStore ==
    \E n \in 1..MaxPays, observed \in BOOLEAN :
        /\ users = Registered
        /\ tasks = [i \in 1..n |->
                      [rewardSol |-> RewardOf(i), status |-> TASK_COMPLETED,
                       maxSubmissions |-> 1, currentSubmissions |-> 1,
                       assignedTo |-> 1]]
        /\ submissions = [i \in 1..n |->
                            [taskId |-> i, workerId |-> 1, status |-> APPROVED,
                             aiVerificationResult |-> "meets the criteria",
                             aiVerificationScore |-> 92, verifiedAt |-> 1]]
        /\ payments = [i \in 1..n |->
                         [submissionId |-> i, taskId |-> i, workerId |-> 1,
                          walletAddress |-> "addrA", amountSol |-> RewardOf(i),
                          status |-> PAY_PENDING, transactionSignature |-> Null,
                          errorMessage |-> NullStr, completedAt |-> Null]]
        /\ budgetData = IF observed THEN updateBudget(NoBudget, 1, "employer")
                        ELSE NoBudget
        /\ req = EmptyBag
        /\ reply = [op |-> "verifyOne", code |-> 200, results |-> <<>>]
        /\ calls = [i \in 1..n |-> NoCalls]
        /\ employerKey \in BOOLEAN

InitSettle == InitSettleStore /\ twin = NoTwin

NextSettle == SettleArrivals \/ SettleSteps

SpecSettle == InitSettle /\ [][NextSettle]_vars

\* Settlement of one Payment together with balance observations.
InitBudget == InitSettle /\ Len(payments) = 1

NextBudget == SettleArrivals \/ SettleSteps \/ BudgetArrivals \/ BudgetSteps

SpecBudget == InitBudget /\ [][NextBudget]_vars

(***************************************************************************)
(* Two servers that start from different Budget records and are given the  *)
(* same requests and the same collaborator responses.                      *)
(***************************************************************************)

\* A handler without what it read from the Budget record (claim-rewards
\* keeps whether getBudget found one).
Low(h) == IF h.op = "claimRewards" THEN [h EXCEPT !.found = FALSE] ELSE h

\* The step of handler h that follows the await it is at; outcome, yes and
\* amount are the response of the collaborator it waited for, if any.
Resume(h, outcome, yes, amount) ==
    \/ SettleOneCommit(h)
    \/ SettleOneSend(h)
    \/ SettleOneSent(h, outcome)
    \/ SettleOneConfirmed(h, yes)
    \/ SettleOneEarn(h)
    \/ SettleOnePaidOut(h)
    \/ SettleOneRefused(h)
    \/ SettleOneReread(h)
    \/ SettleOneRespond(h)
    \/ SettleAllBegin(h)
    \/ SettleAllSend(h)
    \/ SettleAllSent(h, outcome)
    \/ SettleAllEarn(h)
    \/ SettleAllPaidOut(h)
    \/ SettleAllResult(h)
    \/ ClaimRewardsClaimed(h, yes, amount)
    \/ ClaimRewardsUpdate(h)
    \/ ClaimRewardsRespond(h)

\* The server takes input in: a request arrives, or the handler the input
\* names is resumed with the response the input carries.
Perform(in) ==
    \/ in.kind = "settleOne" /\ SettleOneStart(in.id)
    \/ in.kind = "settleAll" /\ SettleAllStart
    \/ in.kind = "claimRewards" /\ ClaimRewardsStart(in.wallet)
    \/ /\ in.kind = "resume"
       /\ \E h \in BagToSet(req) :
             Low(h) = in.h /\ Resume(h, in.outcome, in.yes, in.amount)

\* The inputs there are: the requests, and for each handler in progress its
\* resumption, with a response where it waits for a collaborator.
Inputs ==
    {[NoInput EXCEPT !.kind = "settleOne", !.id = p] : p \in DOMAIN payments}
    \cup {[NoInput EXCEPT !.kind = "settleAll"]}
    \cup {[NoInput EXCEPT !.kind = "claimRewards", !.wallet = w] : w \in WalletInputs}
    \cup UNION {
          {[NoInput EXCEPT !.kind = "resume", !.h = Low(h), !.outcome = o,
                           !.yes = c, !.amount = a] :
              o \in IF h.pc = "sending" THEN ExecutorOutcomes ELSE {"sent"},
              c \in IF h.pc \in {"confirming", "claiming"} THEN BOOLEAN ELSE {FALSE},
              a \in IF h.pc = "claiming" THEN ClaimedAmounts ELSE {0}}
          : h \in BagToSet(req)}

\* An input the first server can take is chosen; a claim-rewards request
\* only while the balance of the second server too is below MaxBalance.
Choose ==
    /\ twin.turn = "choose"
    /\ \E in \in Inputs :
          /\ ENABLED Perform(in)
          /\ in.kind = "claimRewards" =>
                twin.parked.budgetData.balanceSol + InFlight("claimRewards")
                    < MaxBalance
          /\ twin' = [twin EXCEPT !.turn = "first", !.in = in]
    /\ UNCHANGED <<store, req, reply, calls, employerKey>>

\* The server whose turn it is takes the chosen input.
Take ==
    /\ twin.turn \in {"first", "second"}
    /\ Perform(twin.in)

\* The two servers change places.
Swap ==
    /\ twin.turn \in {"swap", "back"}
    /\ users' = twin.parked.users
    /\ tasks' = twin.parked.tasks
    /\ submissions' = twin.parked.submissions
    /\ payments' = twin.parked.payments
    /\ budgetData' = twin.parked.budgetData
    /\ req' = twin.parked.req
    /\ reply' = twin.parked.reply
    /\ calls' = twin.parked.calls
    /\ twin' = IF twin.turn = "swap"
               THEN [twin EXCEPT !.turn = "second", !.parked = Server]
               ELSE [turn |-> "choose", in |-> NoInput, parked |-> Server]
    /\ UNCHANGED employerKey

\* One pending Payment in both servers; the Budget record of the first
\* absent or created by a balance observation, that of the second another
\* one: with a balance observed, or with a balance and a paid-out total.
InitTwin ==
    /\ InitSettleStore
    /\ Len(payments) = 1
    /\ \E b \in {updateBudget(NoBudget, 1, "employer"),
                 addToPaidOut(updateBudget(NoBudget, 0, "addrA"), 3)} :
          /\ b # budgetData
          /\ twin = [turn |-> "choose", in |-> NoInput,
                     parked |-> [Server EXCEPT !.budgetData = b]]

NextTwin == Choose \/ Take \/ Swap

SpecTwin == InitTwin /\ [][NextTwin]_vars

\* The event loop resumes a handler once the promise it awaits settles: every
\* step that follows an await of the store, and every step that issues a
\* call, is eventually taken.  Arrivals of requests are under no fairness.
ResumeFairness ==
    /\ WF_vars(\E h \in BagToSet(req) : SettleOneCommit(h))
    /\ WF_vars(\E h \in BagToSet(req) : SettleOneSend(h))
    /\ WF_vars(\E h \in BagToSet(req) : SettleOneEarn(h))
    /\ WF_vars(\E h \in BagToSet(req) : SettleOnePaidOut(h))
    /\ WF_vars(\E h \in BagToSet(req) : SettleOneRefused(h))
    /\ WF_vars(\E h \in BagToSet(req) : SettleOneReread(h))
    /\ WF_vars(\E h \in BagToSet(req) : SettleOneRespond(h))
    /\ WF_vars(\E h \in BagToSet(req) : SettleAllBegin(h))
    /\ WF_vars(\E h \in BagToSet(req) : h.queue # <<>> /\ SettleAllBegin(h))
    /\ WF_vars(\E h \in BagToSet(req) : SettleAllSend(h))
    /\ WF_vars(\E h \in BagToSet(req) : SettleAllEarn(h))
    /\ WF_vars(\E h \in BagToSet(req) : SettleAllPaidOut(h))
    /\ WF_vars(\E h \in BagToSet(req) : SettleAllResult(h))

\* Every call of sendPayment and verifyTransaction comes back, with a result
\* or, through its catch, with a failure.  The code sets no time limit on
\* connection.getBalance, sendAndConfirmTransaction or getTransaction, so
\* this is an assumption about the RPC node, not something the code ensures.
CallFairness ==
    /\ WF_vars(\E h \in BagToSet(req), o \in ExecutorOutcomes : SettleOneSent(h, o))
    /\ WF_vars(\E h \in BagToSet(req), c \in BOOLEAN : SettleOneConfirmed(h, c))
    /\ WF_vars(\E h \in BagToSet(req), o \in ExecutorOutcomes : SettleAllSent(h, o))

SettleFairness == ResumeFairness /\ CallFairness

\* The settlement of one pending Payment by settle-one and settle-all
\* requests, with the handlers resumed by the event loop and calls that may
\* never come back.
SpecSettleResume == InitBudget /\ [][NextSettle]_vars /\ ResumeFairness

\* Settle-all requests over two pending Payments, the Budget record present,
\* under that fairness.
InitSettleAllFair == InitSettle /\ Len(payments) = MaxPays /\ budgetData.present

NextSettleAll == SettleAllStart \/ SettleAllSteps

SpecSettleAllFair == InitSettleAllFair /\ [][NextSettleAll]_vars /\ SettleFairness

\* Submit-proof requests together with verification: one Task of cap 2
\* claimed by alice, with alice's first Submission pending.
InitOpen ==
    /\ users = Registered
    /\ tasks = << [rewardSol |-> RewardOf(1), status |-> IN_PROGRESS,
                   maxSubmissions |-> 2, currentSubmissions |-> 1,
                   assignedTo |-> 1] >>
    /\ submissions = << [taskId |-> 1, workerId |-> 1, status |-> SUB_PENDING,
                         aiVerificationResult |-> NullStr,
                         aiVerificationScore |-> NoScore,
                         verifiedAt |-> Null] >>
    /\ payments = <<>>
    /\ budgetData = NoBudget
    /\ req = EmptyBag
    /\ reply = [op |-> "submit", code |-> 201, results |-> <<>>]
    /\ calls = <<>>
    /\ employerKey \in BOOLEAN
    /\ twin = NoTwin

NextOpen ==
    \/ SubmitArrivals
    \/ SubmitSteps
    \/ VerifyArrivals
    \/ VerifySteps

SpecOpen == InitOpen /\ [][NextOpen]_vars

\* From creation to Payment: manual and generated Tasks, submit-proof and
\* verify-one, from the store after the two registrations.
NextReward ==
    \/ CreateArrivals
    \/ CreateSteps
    \/ SubmitArrivals
    \/ SubmitSteps
    \/ VerifyOneArrivals
    \/ VerifyOneSteps

SpecReward == InitTasks /\ [][NextReward]_vars

\* ------------------------------------------------------------ properties

\* The sum of amountSol over the Payments ids of ps.
RECURSIVE SumAmounts(_, _)
SumAmounts(ps, ids) ==
    IF ids = {} THEN 0
    ELSE LET i == CHOOSE x \in ids : TRUE
         IN  ps[i].amountSol + SumAmounts(ps, ids \ {i})

CompletedPayments == {p \in DOMAIN payments : payments[p].status = PAY_COMPLETED}

CompletedPaymentsOf(u) == {p \in CompletedPayments : payments[p].workerId = u}

PaymentsFor(s) == {p \in DOMAIN payments : payments[p].submissionId = s}

\* The handlers in progress.
Handlers == BagToSet(req)

\* C1: in every reachable state, whatever the interleaving of submit-proof
\* requests, every Task has currentSubmissions <= maxSubmissions.
C1_CapRespected ==
    \A t \in DOMAIN tasks : tasks[t].currentSubmissions <= tasks[t].maxSubmissions

\* C2: once a Submission has left pending, no step changes its status,
\* its recorded reasoning and score, or its verification timestamp.
C2_VerdictFinal ==
    [][\A s \in DOMAIN submissions :
          submissions[s].status # SUB_PENDING => submissions'[s] = submissions[s]]_vars

\* C3: in every reachable state every Payment references an approved
\* Submission, and no Submission is referenced by more than one Payment.
C3_PaymentOfApproved ==
    /\ \A p \in DOMAIN payments :
          submissions[payments[p].submissionId].status = APPROVED
    /\ \A p, q \in DOMAIN payments :
          payments[p].submissionId = payments[q].submissionId => p = q

\* C4: whenever no verification is in progress, every approved Submission has
\* exactly one Payment, and the amount of that Payment is the reward of the
\* Submission's Task (a reward is never rewritten, so an amount equal to it
\* in every state never changes).
C4_OnePaymentPerApproved ==
    req = EmptyBag =>
        \A s \in DOMAIN submissions :
            submissions[s].status = APPROVED =>
                /\ Cardinality(PaymentsFor(s)) = 1
                /\ \A p \in PaymentsFor(s) :
                      payments[p].amountSol = tasks[submissions[s].taskId].rewardSol

\* C5: whatever the interleaving of settle-one and settle-all requests,
\* sendPayment is called at most once for any Payment.
C5_SentAtMostOnce ==
    \A p \in DOMAIN payments : calls[p].sends <= 1

\* C6: the worker's totals and Budget.totalPaidOut are increased at most once
\* for any Payment, and only for a Payment whose transfer succeeded.
C6_AccruedAtMostOnce ==
    \A p \in DOMAIN payments :
        /\ calls[p].earned <= 1
        /\ calls[p].paidOut <= 1
        /\ (calls[p].earned > 0 \/ calls[p].paidOut > 0) => calls[p].succeeded # {}

\* C7: in every reachable state Budget.totalPaidOut, counted as 0 while no
\* Budget record exists, is the sum of the amounts of the completed Payments.
C7_PaidOutIsSumOfCompleted ==
    (IF budgetData.present THEN budgetData.totalPaidOut ELSE 0)
        = SumAmounts(payments, CompletedPayments)

\* C8: in every reachable state every User's totalEarnings is the sum of the
\* amounts of that worker's completed Payments and tasksCompleted is their
\* number.
C8_EarningsAreSumOfCompleted ==
    \A u \in DOMAIN users :
        /\ users[u].totalEarnings = SumAmounts(payments, CompletedPaymentsOf(u))
        /\ users[u].tasksCompleted = Cardinality(CompletedPaymentsOf(u))

\* C9: a Payment is completed only with the signature of a transfer that
\* sendPayment reported as sent and verifyTransaction reported as confirmed,
\* in settle-one and in settle-all, and the totals accrue only for a
\* confirmed transfer.
C9_CompletedOnlyWhenConfirmed ==
    \A p \in DOMAIN payments :
        /\ payments[p].status = PAY_COMPLETED =>
              /\ payments[p].transactionSignature \in calls[p].succeeded
              /\ payments[p].transactionSignature \in calls[p].confirmed
        /\ calls[p].earned > 0 => calls[p].confirmed # {}

\* The judge's answers that are service errors: the call threw, or its
\* answer could not be parsed.
ServiceErrors == {j \in JudgeReplies : j.threw}

\* The last entry of a result list names submission id as a service error.
EndsWithError(results, id) ==
    /\ results # <<>>
    /\ results[Len(results)].id = id
    /\ results[Len(results)].error = "Verification service error"
    /\ results[Len(results)].score = NoScore

\* C10: when the judge answers with a service error, verify-one and
\* verify-all leave every Submission, Payment, Task and User as it was (a
\* pending Submission stays pending, with no verdict and no Payment), and
\* report an error where a rejection reports a verdict: status 500 from
\* verify-one, an entry with an error and no score from verify-all.
C10_ServiceErrorLeavesPending ==
    [][\A h \in Handlers, j \in ServiceErrors :
          /\ VerifyOneVerdict(h, j) =>
                /\ UNCHANGED <<submissions, payments, tasks, users>>
                /\ reply'.code = 500
          /\ VerifyAllVerdict(h, j) =>
                /\ UNCHANGED <<submissions, payments, tasks, users>>
                /\ \/ EndsWithError(reply'.results, h.id)
                   \/ \E g \in BagToSet(req') : EndsWithError(g.results, h.id)]_vars

\* C10: verify-one has answered 500 and a verify-all in progress holds an
\* error entry for a Submission, while that Submission and every other is
\* pending with no verdict, no Payment exists and the Task is as it was.
C10_Witness ==
    /\ reply.code = 500
    /\ \E g \in Handlers :
          /\ g.op = "verifyAll"
          /\ g.results # <<>>
          /\ g.results[1].error = "Verification service error"
          /\ submissions[g.results[1].id].status = SUB_PENDING
    /\ \A s \in DOMAIN submissions :
          /\ submissions[s].status = SUB_PENDING
          /\ submissions[s].aiVerificationResult = NullStr
          /\ submissions[s].aiVerificationScore = NoScore
          /\ submissions[s].verifiedAt = Null
    /\ payments = <<>>
    /\ \A t \in DOMAIN tasks : tasks[t].status = PENDING_VERIFICATION

\* C11: a step changes the status of a Payment only from pending to
\* processing or failed, or from processing to completed or failed; the
\* status of a completed or failed Payment is never changed.
C11_PaymentMovesForward ==
    [][\A p \in DOMAIN payments :
          payments'[p].status # payments[p].status =>
              \/ /\ payments[p].status = PAY_PENDING
                 /\ payments'[p].status \in {PROCESSING, FAILED}
              \/ /\ payments[p].status = PROCESSING
                 /\ payments'[p].status \in {PAY_COMPLETED, FAILED}]_vars

\* C12: once the status of a Task is completed or cancelled, no step changes
\* its status, currentSubmissions or assignedTo.
C12_ClosedTaskFrozen ==
    [][\A t \in DOMAIN tasks :
          tasks[t].status \in {TASK_COMPLETED, CANCELLED} =>
              /\ tasks'[t].status = tasks[t].status
              /\ tasks'[t].currentSubmissions = tasks[t].currentSubmissions
              /\ tasks'[t].assignedTo = tasks[t].assignedTo]_vars

\* C13: in every reachable state a Task whose currentSubmissions equals its
\* maxSubmissions has status pending_verification, completed or cancelled.
C13_AtCapNotOpen ==
    \A t \in DOMAIN tasks :
        tasks[t].currentSubmissions = tasks[t].maxSubmissions =>
            tasks[t].status \in {PENDING_VERIFICATION, TASK_COMPLETED, CANCELLED}

\* C13: a claimed Task of cap 2 whose second Submission reached the cap.
C13_Witness ==
    \E t \in DOMAIN tasks :
        /\ tasks[t].maxSubmissions = 2
        /\ tasks[t].currentSubmissions = 2
        /\ tasks[t].assignedTo # Null
        /\ tasks[t].status = PENDING_VERIFICATION
        /\ Len(submissions) = 2

\* C16: a claim that finds its Task open sets status in_progress and
\* assignedTo to the worker, changes nothing else of the Task and goes on to
\* its response, which is 200 and changes no Task; a claim that finds any
\* other status is answered 400 and leaves every Task as it was.
C16_ClaimBindsOpenTask ==
    [][\A h \in Handlers :
          /\ (At(h, "claim", "task") /\ h.found /\ ClaimAssign(h)) =>
                 IF tasks[h.id].status = OPEN
                 THEN /\ tasks' = [tasks EXCEPT ![h.id].status = IN_PROGRESS,
                                                ![h.id].assignedTo = h.worker]
                      /\ reply' = reply
                      /\ BagIn([h EXCEPT !.pc = "assigned"], req')
                 ELSE /\ tasks' = tasks
                      /\ reply' = [op |-> "claim", code |-> 400, results |-> <<>>]
          /\ (At(h, "claim", "reread") /\ ClaimRespond(h)) =>
                 /\ tasks' = tasks
                 /\ reply' = [op |-> "claim", code |-> 200, results |-> <<>>]]_vars

\* C16: bob's claim bound the open Task, and a later claim was answered 400
\* with the Task still bound to bob.
C16_Witness ==
    /\ reply = [op |-> "claim", code |-> 400, results |-> <<>>]
    /\ \E t \in DOMAIN tasks :
          /\ tasks[t].status = IN_PROGRESS
          /\ tasks[t].assignedTo = 2
          /\ tasks[t].currentSubmissions = 0

\* C17: a submit-proof that finds the Task's currentSubmissions at (or above)
\* maxSubmissions ends with status 400, adds no Submission and leaves every
\* Task as it was.
C17_AtCapRejected ==
    [][\A h \in Handlers :
          (/\ At(h, "submit", "task")
           /\ h.found
           /\ tasks[h.id].currentSubmissions >= tasks[h.id].maxSubmissions
           /\ SubmitCreate(h)) =>
              /\ submissions' = submissions
              /\ tasks' = tasks
              /\ req' = req (-) SetToBag({h})
              /\ reply' = [op |-> "submit", code |-> 400, results |-> <<>>]]_vars

\* C17: a submit-proof was answered 400 against a Task of cap 1 that holds
\* its one Submission.
C17_Witness ==
    /\ reply = [op |-> "submit", code |-> 400, results |-> <<>>]
    /\ Len(submissions) = 1
    /\ \E t \in DOMAIN tasks :
          /\ tasks[t].maxSubmissions = 1
          /\ tasks[t].currentSubmissions = 1
          /\ tasks[t].status = PENDING_VERIFICATION

\* C14: a verify-one that finds its Submission not pending ends there with
\* status 400: the judge is not called and no Submission, Task, Payment,
\* User or Budget record changes.
C14_VerifiedIsRejected ==
    [][\A h \in Handlers :
          (/\ At(h, "verifyOne", "submission")
           /\ h.found
           /\ submissions[h.id].status # SUB_PENDING
           /\ VerifyOneCheck(h)) =>
              /\ UNCHANGED <<users, tasks, submissions, payments, budgetData, calls>>
              /\ req' = req (-) SetToBag({h})
              /\ reply' = [op |-> "verifyOne", code |-> 400, results |-> <<>>]]_vars

\* C14: a verify-one was answered 400 for a Submission rejected once before,
\* with no request in progress and no Payment.
C14_Witness ==
    /\ reply = [op |-> "verifyOne", code |-> 400, results |-> <<>>]
    /\ req = EmptyBag
    /\ payments = <<>>
    /\ \E s \in DOMAIN submissions :
          /\ submissions[s].status = REJECTED
          /\ submissions[s].verifiedAt = 1

\* C15: a settle-one that finds its Payment not pending ends there with
\* status 400: sendPayment and verifyTransaction are not called and no
\* Payment, Budget or User record changes.
C15_SettledIsRejected ==
    [][\A h \in Handlers :
          (/\ At(h, "settleOne", "payment")
           /\ h.found
           /\ payments[h.id].status # PAY_PENDING
           /\ SettleOneCommit(h)) =>
              /\ UNCHANGED <<users, tasks, submissions, payments, budgetData, calls>>
              /\ req' = req (-) SetToBag({h})
              /\ reply' = [op |-> "settleOne", code |-> 400, results |-> <<>>]]_vars

\* C15: a settle-one was answered 400 for a Payment completed by one
\* transfer, with no request in progress.
C15_Witness ==
    /\ reply = [op |-> "settleOne", code |-> 400, results |-> <<>>]
    /\ req = EmptyBag
    /\ \E p \in DOMAIN payments :
          /\ payments[p].status = PAY_COMPLETED
          /\ calls[p].sends = 1
          /\ calls[p].earned = 1

\* An amount above 0 and not above the configured maximum.
InRange(amount) == ~isNaN(amount) /\ amount > 0 /\ amount <= MAX_PAYMENT_AMOUNT_SOL

\* C18: in every reachable state the reward of every Task and the amount of
\* every Payment lies in (0, 10], and a creation request whose reward is not
\* in (0, 10], and a generation step, adds no Task but one with such a
\* reward.
C18_RewardsInRange ==
    /\ [](/\ \A t \in DOMAIN tasks : InRange(tasks[t].rewardSol)
          /\ \A p \in DOMAIN payments : InRange(payments[p].amountSol))
    /\ [][/\ \A rw \in RewardInputs, c \in CapInputs :
                (CreateTask(rw, c) /\ ~InRange(rw)) =>
                    (tasks' = tasks /\ reply'.code = 400)
          /\ \A h \in Handlers :
                (\/ \E g \in GeneratedLists : GenerateReturned(h, g)
                 \/ GenerateCreated(h)) =>
                    \/ tasks' = tasks
                    \/ \E rw \in 1..MAX_PAYMENT_AMOUNT_SOL :
                          tasks' = createTask(tasks, rw, 1)]_vars

\* C18: the one Task is the valid item of a generated list that also held an
\* invalid item, and the Payment for its approved Submission carries its
\* reward.
C18_Witness ==
    /\ Len(tasks) = 1
    /\ tasks[1].rewardSol = 7
    /\ \E p \in DOMAIN payments :
          /\ payments[p].taskId = 1
          /\ payments[p].amountSol = 7
          /\ submissions[payments[p].submissionId].status = APPROVED

\* Every Payment the handlers create can be settled: its amount lies in
\* (0, 10] and its address is one isValidWalletAddress accepts, so neither
\* settlement handler ever meets a Payment that fails its amount or address
\* validation.
PaymentsPassValidation ==
    \A p \in DOMAIN payments :
        /\ InRange(payments[p].amountSol)
        /\ isValidWalletAddress(payments[p].walletAddress)

\* C21: when sendPayment succeeded with a signature and verifyTransaction
\* answers confirmed = false, settle-one marks the Payment failed with the
\* error text "Transaction not confirmed" and has only its response left,
\* which is 500: neither step adds anything to the Budget's totalPaidOut or
\* to any User's totalEarnings or tasksCompleted.
C21_UnconfirmedIsFailed ==
    [][\A h \in Handlers :
          /\ (/\ At(h, "settleOne", "confirming")
              /\ h.sig \in calls[h.id].succeeded
              /\ SettleOneConfirmed(h, FALSE)) =>
                 /\ payments'[h.id].status = FAILED
                 /\ payments'[h.id].errorMessage = "Transaction not confirmed"
                 /\ payments'[h.id].completedAt = payments[h.id].completedAt
                 /\ UNCHANGED <<users, budgetData, reply>>
                 /\ BagIn([h EXCEPT !.pc = "unconfirmed"], req')
          /\ (At(h, "settleOne", "unconfirmed") /\ SettleOneRefused(h)) =>
                 /\ UNCHANGED <<users, budgetData, payments>>
                 /\ req' = req (-) SetToBag({h})
                 /\ reply' = [op |-> "settleOne", code |-> 500, results |-> <<>>]]_vars

\* C21: one transfer was sent for a Payment and succeeded, its confirmation
\* failed, and the settle-one ended with 500 leaving the Payment failed and
\* the worker and the Budget with nothing accrued.
C21_Witness ==
    /\ reply = [op |-> "settleOne", code |-> 500, results |-> <<>>]
    /\ req = EmptyBag
    /\ \E p \in DOMAIN payments :
          /\ payments[p].status = FAILED
          /\ payments[p].errorMessage = "Transaction not confirmed"
          /\ calls[p].sends = 1
          /\ calls[p].succeeded = {1}
          /\ calls[p].confirmed = {}
          /\ users[payments[p].workerId].totalEarnings = 0
          /\ users[payments[p].workerId].tasksCompleted = 0
          /\ budgetData.totalPaidOut = 0

\* C22: whenever no request is in progress, the Task of every approved
\* Submission has status completed (in the states between a handler's write
\* of approved and its write of completed the request is still in progress).
C22_ApprovedTaskCompleted ==
    req = EmptyBag =>
        \A s \in DOMAIN submissions :
            submissions[s].status = APPROVED =>
                tasks[submissions[s].taskId].status = TASK_COMPLETED

\* The status and cap pre-checks of submit-proof let a new Submission
\* against this Task through.
PassesSubmitChecks(task) ==
    /\ task.status # TASK_COMPLETED
    /\ task.status # CANCELLED
    /\ ~(task.maxSubmissions # 0 /\ task.currentSubmissions >= task.maxSubmissions)

\* C23: a step that rejects a Submission changes no Task, and in every
\* reachable state a Task that has a rejected Submission, and that no other
\* verdict has completed, still passes the pre-checks of submit-proof, so a
\* further Submission against it is accepted.
C23_RejectionAllowsRetry ==
    /\ [][(\E s \in DOMAIN submissions :
              /\ submissions[s].status = SUB_PENDING
              /\ submissions'[s].status = REJECTED) => tasks' = tasks]_vars
    /\ [](\A s \in DOMAIN submissions :
            (/\ submissions[s].status = REJECTED
             /\ tasks[submissions[s].taskId].status # TASK_COMPLETED
             /\ tasks[submissions[s].taskId].status # CANCELLED) =>
                PassesSubmitChecks(tasks[submissions[s].taskId]))

\* The worker of this Submission has no wallet address on file.
NoWallet(s) == users[submissions[s].workerId].walletAddress = ""

\* C24: when the judge approves (with a reasoning text, and not one of a
\* service error) a Submission whose worker has no wallet
\* address, the verdict step marks the Submission approved and the next step
\* of the handler marks the Task completed and creates no Payment; no
\* Payment is ever created for such a Submission.
C24_ApprovedWithoutWallet ==
    /\ [](\A p \in DOMAIN payments : ~NoWallet(payments[p].submissionId))
    /\ [][\A h \in Handlers :
            /\ \A judged \in JudgeReplies :
                  (/\ h.op \in {"verifyOne", "verifyAll"}
                   /\ h.pc = "judging"
                   /\ NoWallet(h.id)
                   /\ verifySubmission(judged).approved
                   /\ ~StartsWithThrows(verifySubmission(judged))
                   /\ ~IsServiceError(verifySubmission(judged))
                   /\ (VerifyOneVerdict(h, judged) \/ VerifyAllVerdict(h, judged))) =>
                      /\ submissions'[h.id].status = APPROVED
                      /\ UNCHANGED <<tasks, payments>>
            /\ (/\ h.op \in {"verifyOne", "verifyAll"}
                /\ h.pc = "worker"
                /\ NoWallet(h.id)
                /\ (VerifyOnePay(h) \/ VerifyAllPay(h))) =>
                   /\ tasks'[submissions[h.id].taskId].status = TASK_COMPLETED
                   /\ UNCHANGED <<payments, submissions, users, budgetData>>]_vars

\* C24: the Submission of the worker without a wallet address was approved
\* by a verify-one that has ended with 200; its Task is completed and no
\* Payment exists.
C24_Witness ==
    /\ reply = [op |-> "verifyOne", code |-> 200, results |-> <<>>]
    /\ req = EmptyBag
    /\ payments = <<>>
    /\ \E s \in DOMAIN submissions :
          /\ NoWallet(s)
          /\ submissions[s].status = APPROVED
          /\ tasks[submissions[s].taskId].status = TASK_COMPLETED

\* The submission ids of a result list, in order.
RECURSIVE IdsOf(_)
IdsOf(results) ==
    IF results = <<>> THEN <<>>
    ELSE <<Head(results).id>> \o IdsOf(Tail(results))

\* This step takes handler h from the requests in progress.
Leaves(h) == CopiesIn(h, req') < CopiesIn(h, req)

\* This step puts handler g among the requests in progress.
Enters(g) == CopiesIn(g, req') > CopiesIn(g, req)

\* C25: a verify-all carries every Submission of its list through to its
\* result list.  Each of its steps keeps the ids of the results so far
\* followed by the items still to process, so no item is dropped or entered
\* twice; a service error on an item leaves the store as it is and enters
\* the item as an error; and the handler ends only with status 200 and one
\* result per Submission of its list, in list order.
C25_VerifyAllEveryItem ==
    [][\A h \in Handlers :
          (h.op = "verifyAll" /\ Leaves(h)) =>
              /\ \/ \E g \in BagToSet(req') :
                       /\ Enters(g)
                       /\ g.op = "verifyAll"
                       /\ IdsOf(g.results) \o g.queue = IdsOf(h.results) \o h.queue
                 \/ /\ req' = req (-) SetToBag({h})
                    /\ reply'.op = "verifyAll"
                    /\ reply'.code = 200
                    /\ IdsOf(reply'.results) = IdsOf(h.results) \o h.queue
              /\ \A judged \in ServiceErrors :
                    (h.pc = "judging" /\ VerifyAllVerdict(h, judged)) =>
                       /\ UNCHANGED store
                       /\ \/ \E g \in BagToSet(req') :
                                Enters(g) /\ EndsWithError(g.results, h.id)
                          \/ EndsWithError(reply'.results, h.id)]_vars

\* The last entry of a result list reports this outcome for payment id.
EndsWithOutcome(results, id, success, error) ==
    /\ results # <<>>
    /\ results[Len(results)].id = id
    /\ results[Len(results)].success = success
    /\ results[Len(results)].error = error

\* C26: a settle-all carries every Payment of its list through to its
\* result list.  Each of its steps keeps the ids of the results so far
\* followed by the items still to process, and the handler ends only with
\* status 200 and one result per Payment of its list, in list order.  When
\* sendPayment returns, the step writes the one Payment it was called for:
\* failed with the executor's error text when the transfer failed, with no
\* User or Budget change, and completed when it succeeded; and the entry
\* pushed for the item reports that outcome.
C26_SettleAllEveryItem ==
    [][\A h \in Handlers :
          (h.op = "settleAll" /\ Leaves(h)) =>
              /\ \/ \E g \in BagToSet(req') :
                       /\ Enters(g)
                       /\ g.op = "settleAll"
                       /\ IdsOf(g.results) \o g.queue = IdsOf(h.results) \o h.queue
                 \/ /\ req' = req (-) SetToBag({h})
                    /\ reply'.op = "settleAll"
                    /\ reply'.code = 200
                    /\ IdsOf(reply'.results) = IdsOf(h.results) \o h.queue
              /\ \A outcome \in ExecutorOutcomes :
                    (h.pc = "sending" /\ SettleAllSent(h, outcome)) =>
                       LET result == sendPayment(payments[h.id].walletAddress,
                                         payments[h.id].amountSol, outcome, h.sig)
                       IN  /\ \A p \in DOMAIN payments :
                                 p # h.id => payments'[p] = payments[p]
                           /\ result.success =>
                                 payments'[h.id].status = PAY_COMPLETED
                           /\ ~result.success =>
                                 /\ payments'[h.id].status = FAILED
                                 /\ payments'[h.id].errorMessage = result.error
                                 /\ UNCHANGED <<users, budgetData>>
                                 /\ \E g \in BagToSet(req') :
                                       /\ Enters(g)
                                       /\ ~g.ok
                                       /\ g.err = result.error
              /\ (h.pc \in {"skipped", "settled"} /\ SettleAllResult(h)) =>
                    \/ \E g \in BagToSet(req') :
                          Enters(g) /\ EndsWithOutcome(g.results, h.id, h.ok, h.err)
                    \/ EndsWithOutcome(reply'.results, h.id, h.ok, h.err)]_vars

\* The status of Payment p, "none" when there is no such Payment.
PaymentStatus(p) == IF p \in DOMAIN payments THEN payments[p].status ELSE "none"

\* C27: every Payment that is processing is eventually completed or failed.
C27_ProcessingEnds ==
    \A p \in 1..MaxPays :
        (PaymentStatus(p) = PROCESSING)
            ~> (PaymentStatus(p) \in {PAY_COMPLETED, FAILED})

\* C28: sendPayment is called for a Payment only when the Payment's status
\* is processing, and no step takes a Payment that is not pending to
\* pending.
C28_SentWhileProcessing ==
    [][/\ \A h \in Handlers :
             (SettleOneSend(h) \/ SettleAllSend(h)) =>
                 payments[h.id].status = PROCESSING
       /\ \A p \in DOMAIN payments :
             payments[p].status # PAY_PENDING => payments'[p].status # PAY_PENDING]_vars

\* The calls of sendPayment that have not returned: the settlement handlers
\* suspended in that call.
OutstandingTransfers ==
    BagCardinality([h \in {g \in BagToSet(req) : g.pc = "sending"} |-> req[h]])

\* C29: in every reachable state at most one call of sendPayment is
\* outstanding.
C29_OneTransferAtATime == OutstandingTransfers <= 1

\* C30: in every reachable state no two User records have the same
\* username.
C30_UsernamesUnique ==
    \A i, j \in DOMAIN users :
        i # j => users[i].username # users[j].username

\* C31: of two servers that start from different Budget records and have
\* been given the same requests and the same collaborator responses, the
\* Tasks, the Submissions and the Payments are the same, and the second
\* server can take every input the first has taken.
C31_BudgetBlind ==
    /\ twin.turn = "choose" =>
          /\ tasks = twin.parked.tasks
          /\ submissions = twin.parked.submissions
          /\ payments = twin.parked.payments
    /\ twin.turn = "second" => ENABLED Perform(twin.in)

\* C31: both servers have settled the Payment and answered 200; the one
\* has accrued it in its Budget record, the other has no Budget record.
C31_Witness ==
    /\ twin.turn = "choose"
    /\ req = EmptyBag
    /\ reply = [op |-> "settleOne", code |-> 200, results |-> <<>>]
    /\ twin.parked.reply = reply
    /\ payments[1].status = PAY_COMPLETED
    /\ twin.parked.payments[1].status = PAY_COMPLETED
    /\ {budgetData.present, twin.parked.budgetData.present} = {TRUE, FALSE}
    /\ \E b \in {budgetData, twin.parked.budgetData} :
          b.present /\ b.totalPaidOut >= payments[1].amountSol

\* C32: the updateBudget of a claim-rewards leaves a Budget record with the
\* observed balance and funding address and the totalPaidOut it had (0 for
\* a record it creates); totalPaidOut never decreases, and a step that
\* changes it is the addToPaidOut of a settlement, which adds the amount of
\* the Payment the handler completed and changes neither the balance nor
\* the funding address.
C32_PaidOutOnlyAccrues ==
    [][/\ \A h \in Handlers :
             (h.op = "claimRewards" /\ h.pc = "budget" /\ ClaimRewardsUpdate(h)) =>
                 /\ budgetData'.present
                 /\ budgetData'.totalPaidOut = budgetData.totalPaidOut
                 /\ budgetData'.walletAddress = h.wallet
       /\ budgetData'.totalPaidOut >= budgetData.totalPaidOut
       /\ budgetData'.totalPaidOut # budgetData.totalPaidOut =>
             \E h \in Handlers :
                 /\ h.op \in {"settleOne", "settleAll"}
                 /\ h.pc = "earned"
                 /\ SettleOnePaidOut(h) \/ SettleAllPaidOut(h)
                 /\ h.sig \in calls[h.id].succeeded
                 /\ budgetData'.totalPaidOut =
                        budgetData.totalPaidOut + payments[h.id].amountSol
                 /\ budgetData'.balanceSol = budgetData.balanceSol
                 /\ budgetData'.walletAddress = budgetData.walletAddress]_vars

\* C32: a claim-rewards has ended after a settlement accrued its Payment:
\* the Budget holds the second observed balance, the funding address the
\* request named, and the accrued totalPaidOut.
C32_Witness ==
    /\ req = EmptyBag
    /\ reply = [op |-> "claimRewards", code |-> 200, results |-> <<>>]
    /\ budgetData.present
    /\ budgetData.balanceSol = 2
    /\ budgetData.walletAddress = "addrA"
    /\ budgetData.totalPaidOut = 3
    /\ payments[1].status = PAY_COMPLETED

\* C33: in every reachable state every approved or rejected Submission has
\* a score from 0 to 100 and a verification timestamp, and every pending
\* Submission has no score and no verification timestamp.
C33_ScoreClamped ==
    \A s \in DOMAIN submissions :
        IF submissions[s].status = SUB_PENDING
        THEN /\ submissions[s].aiVerificationScore = NoScore
             /\ submissions[s].verifiedAt = Null
        ELSE /\ submissions[s].status \in {APPROVED, REJECTED}
             /\ submissions[s].aiVerificationScore \in 0..100
             /\ submissions[s].verifiedAt # Null

\* C33: the judge answered 250 for one Submission and -7 for another: the
\* first is approved with score 100, the second rejected with score 0, both
\* stamped.
C33_Witness ==
    \E s, t \in DOMAIN submissions :
        /\ submissions[s].status = APPROVED
        /\ submissions[s].aiVerificationScore = 100
        /\ submissions[s].verifiedAt = 1
        /\ submissions[t].status = REJECTED
        /\ submissions[t].aiVerificationScore = 0
        /\ submissions[t].verifiedAt = 1

\* C34: of the claims in progress for one Task at most one succeeds.  A
\* step changes a Task's assignedTo only from null, to the worker of a claim
\* at its check; a claim that reaches its check when the Task is bound
\* already is answered 400 and changes no Task; and a claim is answered 200
\* only when its worker is the Task's assignedTo.
C34_OneClaimWins ==
    [][/\ \A t \in DOMAIN tasks :
             tasks'[t].assignedTo # tasks[t].assignedTo =>
                 /\ tasks[t].assignedTo = Null
                 /\ \E h \in Handlers :
                       /\ At(h, "claim", "task")
                       /\ h.id = t
                       /\ Leaves(h)
                       /\ tasks'[t].assignedTo = h.worker
       /\ \A h \in Handlers :
             (/\ At(h, "claim", "task")
              /\ h.found
              /\ tasks[h.id].assignedTo # Null
              /\ ClaimAssign(h)) =>
                 /\ tasks' = tasks
                 /\ reply' = [op |-> "claim", code |-> 400, results |-> <<>>]
       /\ \A h \in Handlers :
             (/\ h.op = "claim"
              /\ req' = req (-) SetToBag({h})
              /\ reply'.op = "claim"
              /\ reply'.code = 200) =>
                 /\ tasks' = tasks
                 /\ tasks[h.id].assignedTo = h.worker]_vars

\* C34: two claims for the same Task were in progress together: alice's was
\* answered 200 and bound the Task, and bob's has yet to reach its check.
C34_Witness ==
    /\ reply = [op |-> "claim", code |-> 200, results |-> <<>>]
    /\ \E h \in Handlers :
          /\ At(h, "claim", "task")
          /\ h.found
          /\ h.worker = 2
          /\ tasks[h.id].status = IN_PROGRESS
          /\ tasks[h.id].assignedTo = 1

\* A settle-all with Payments still to process is in progress.
SettleAllBusy == \E h \in Handlers : h.op = "settleAll" /\ h.queue # <<>>

\* C35: a settle-all lists exactly the Payments that are pending when it
\* starts; with every step of the handlers eventually taken, a time comes
\* when no settle-all has a Payment left to process; and when a settle-all
\* answers with no other request in progress, every Payment of its result
\* list is completed or failed.
C35_SettleAllTerminates ==
    /\ SettleAllBusy ~> ~SettleAllBusy
    /\ [][/\ SettleAllStart =>
                \E g \in BagToSet(req') :
                    /\ Enters(g)
                    /\ g.op = "settleAll"
                    /\ \A p \in DOMAIN payments :
                          payments[p].status = PAY_PENDING <=>
                              \E i \in 1..Len(g.queue) : g.queue[i] = p
          /\ \A h \in Handlers :
                (h.op = "settleAll" /\ Leaves(h) /\ req' = EmptyBag) =>
                    /\ reply'.op = "settleAll"
                    /\ \A i \in 1..Len(reply'.results) :
                          payments'[reply'.results[i].id].status
                              \in {PAY_COMPLETED, FAILED}]_vars

\* C35: a settle-all that ran alone over two pending Payments has answered:
\* both are in its result list, one transfer was sent for each, and neither
\* is pending or processing.
C35_Witness ==
    /\ req = EmptyBag
    /\ reply.op = "settleAll"
    /\ IdsOf(reply.results) = <<1, 2>>
    /\ \A p \in DOMAIN payments :
          /\ payments[p].status \in {PAY_COMPLETED, FAILED}
          /\ calls[p].sends = 1
    /\ payments[1].status = PAY_COMPLETED
    /\ payments[2].status = PAY_COMPLETED

\* The Submission records of Task t.
SubmissionsOf(t) == {s \in DOMAIN submissions : submissions[s].taskId = t}

\* C36: whenever no request is in progress, every Task's currentSubmissions
\* is the number of Submission records of that Task.
C36_CountMatchesRecords ==
    req = EmptyBag =>
        \A t \in DOMAIN tasks :
            tasks[t].currentSubmissions = Cardinality(SubmissionsOf(t))

\* C36: no request is in progress and a Task of cap 2 holds two
\* Submissions and counts 2.
C36_Witness ==
    /\ req = EmptyBag
    /\ \E t \in DOMAIN tasks :
          /\ tasks[t].maxSubmissions = 2
          /\ tasks[t].currentSubmissions = 2
          /\ Cardinality(SubmissionsOf(t)) = 2

\* The place of a Task status in the order open, in_progress,
\* pending_verification, completed (cancelled, which no handler writes, is
\* placed with completed).
Rank(status) ==
    CASE status = OPEN -> 0
      [] status = IN_PROGRESS -> 1
      [] status = PENDING_VERIFICATION -> 2
      [] OTHER -> 3

\* C37: no step takes a Task to a status earlier in the order open,
\* in_progress, pending_verification, completed.
C37_TaskMovesForward ==
    [][\A t \in DOMAIN tasks :
          Rank(tasks'[t].status) >= Rank(tasks[t].status)]_vars

\* C38: a Task is created with assignedTo null; assignedTo becomes set only
\* in the step of a claim that finds the Task open; once set it never
\* changes; and in every reachable state a Task in progress has assignedTo
\* set.
C38_AssignedOnce ==
    /\ [](\A t \in DOMAIN tasks :
            tasks[t].status = IN_PROGRESS => tasks[t].assignedTo # Null)
    /\ [][\A t \in DOMAIN tasks' :
            IF t \notin DOMAIN tasks
            THEN tasks'[t].assignedTo = Null
            ELSE /\ tasks[t].assignedTo # Null =>
                       tasks'[t].assignedTo = tasks[t].assignedTo
                 /\ (tasks[t].assignedTo = Null /\ tasks'[t].assignedTo # Null) =>
                       \E h \in Handlers :
                           /\ At(h, "claim", "task")
                           /\ h.id = t
                           /\ tasks[t].status = OPEN
                           /\ ClaimAssign(h)]_vars

\* C38: alice claimed the Task, the Task then reached its cap, and a later
\* claim was answered 400 with the Task still bound to alice.
C38_Witness ==
    /\ reply = [op |-> "claim", code |-> 400, results |-> <<>>]
    /\ req = EmptyBag
    /\ \E t \in DOMAIN tasks :
          /\ tasks[t].status = PENDING_VERIFICATION
          /\ tasks[t].assignedTo = 1
          /\ tasks[t].currentSubmissions = tasks[t].maxSubmissions

\* C39: every Submission accepted for a Task that has an assigned worker is
\* made by that worker, and every Payment of a Task that has an assigned
\* worker is for that worker.
C39_SubmissionByAssignee ==
    /\ [][\A s \in DOMAIN submissions' :
            (s \notin DOMAIN submissions
               /\ submissions'[s].taskId \in DOMAIN tasks
               /\ tasks[submissions'[s].taskId].assignedTo # Null) =>
                submissions'[s].workerId = tasks[submissions'[s].taskId].assignedTo]_vars
    /\ [](\A p \in DOMAIN payments :
            (payments[p].taskId \in DOMAIN tasks
               /\ tasks[payments[p].taskId].assignedTo # Null) =>
                payments[p].workerId = tasks[payments[p].taskId].assignedTo)

PaymentsOfTask(t) == {p \in DOMAIN payments : payments[p].taskId = t}

\* C40: every Task has at most one Payment, and that Payment's amount is at
\* most the Task's reward, so the Payments of a Task never total more than
\* its reward.
C40_OnePaymentPerTask ==
    \A t \in DOMAIN tasks :
        /\ Cardinality(PaymentsOfTask(t)) <= 1
        /\ \A p \in PaymentsOfTask(t) : payments[p].amountSol <= tasks[t].rewardSol

\* Two Payments of one Task for two different Submissions, each verified once.
C40_TwoSubmissionsPaid ==
    \E p, q \in DOMAIN payments :
        /\ payments[p].taskId = payments[q].taskId
        /\ payments[p].submissionId # payments[q].submissionId
        /\ Len(payments) = 2
        /\ req = EmptyBag

====
